---- MODULE Spec2Model ----
(***************************************************************************)
(* Model of the AI-Math-agent core: the Session Memory Store               *)
(* (Core_Agent/mcp_server.py), the four stage agents and the orchestrator  *)
(* (Core_Agent/agent_clean.py).                                            *)
(*                                                                         *)
(* Representation of Python values:                                        *)
(*   str            a sequence of tokens.  Text that the code inspects     *)
(*                  character by character (problem texts, the "Error"     *)
(*                  prefix, the success-rate string) is spelled one        *)
(*                  character per token; fragments nobody looks into are   *)
(*                  one token each.                                        *)
(*   Optional[T]    << >> for None, <<v>> for a value v.                   *)
(*   float in [0,1] an integer number of hundredths (0.6 is 60).           *)
(*   datetime.now() the value of the clock `now`, which ticks once per     *)
(*                  stored record.                                         *)
(*   "U+D800"       the character of that code point, a lone surrogate:    *)
(*                  a Python str may hold it, no text encoding has it.     *)
(***************************************************************************)
EXTENDS Integers, Sequences, FiniteSets, TLC

VARIABLES
    session_history,   \* ModularMemoryStore.session_history : List[ProblemResult]
    memory_status,     \* ModularMemoryStore.memory_status   : MemoryStatus
    now,               \* the clock read by ProblemResult.timestamp
    response,          \* the value returned by the last store tool call
    run,               \* the pipeline runs of CognitiveAgent, one record per run
    caller,            \* what an in-process caller of get_memory_status holds
    tool_calls         \* per client run: the store_result call in flight, the replies

vars == <<session_history, memory_status, now, response, run, caller, tool_calls>>

storeVars == <<session_history, memory_status, now, response, caller, tool_calls>>

(***************************************************************************)
(* Bounds of the model.                                                    *)
(***************************************************************************)
MaxStores == 3        \* store_result calls per behaviour, varied requests
MaxLongStores == 16   \* store_result calls per behaviour, two requests
MaxCalls == 2         \* store_result calls per client run
MaxToolStores == 6   \* store_result calls per behaviour, with the read tools

(***************************************************************************)
(* Program constants.                                                      *)
(***************************************************************************)
RecentWindow == 10    \* session_history[-10:]
TrendWindow == 5      \* session_history[-5:]

None == << >>
Some(v) == <<v>>

Min(a, b) == IF a < b THEN a ELSE b
Max(a, b) == IF a > b THEN a ELSE b

(***************************************************************************)
(* Python built-ins used by the code.                                      *)
(***************************************************************************)
\* s[start:] with Python's treatment of negative and out-of-range indices
PySliceFrom(s, start) ==
    LET n == Len(s)
        lo == IF start < 0 THEN Max(0, start + n) ELSE Min(start, n)
    IN  SubSeq(s, lo + 1, n)

\* c in s, for a one-character c
Contains(s, c) == \E i \in 1..Len(s) : s[i] = c

\* str.lower(), on the letters of the model's alphabet
LowerChar(c) ==
    CASE c = "X" -> "x"
      [] c = "E" -> "e"
      [] OTHER -> c

Lower(s) == [i \in 1..Len(s) |-> LowerChar(s[i])]

\* str.startswith
StartsWith(s, p) == Len(s) >= Len(p) /\ SubSeq(s, 1, Len(p)) = p

Digit(d) ==
    CASE d = 0 -> "0" [] d = 1 -> "1" [] d = 2 -> "2" [] d = 3 -> "3"
      [] d = 4 -> "4" [] d = 5 -> "5" [] d = 6 -> "6" [] d = 7 -> "7"
      [] d = 8 -> "8" [] d = 9 -> "9"

\* str(n) / f"{n}" for an int n >= 0
RECURSIVE DecStr(_)
DecStr(n) == IF n < 10 THEN <<Digit(n)>> ELSE DecStr(n \div 10) \o <<Digit(n % 10)>>

\* a / b rounded to the nearest integer, ties to even (a >= 0, b > 0):
\* the rounding of the "f" format
RoundHalfEven(a, b) ==
    LET q == a \div b
        r == a % b
    IN  IF 2 * r < b THEN q
        ELSE IF 2 * r > b THEN q + 1
        ELSE IF q % 2 = 0 THEN q ELSE q + 1

\* f"{(s / n) * 100:.1f}" : the digits of the percentage with one decimal
Format1f(s, n) ==
    LET tenths == RoundHalfEven(1000 * s, n)
    IN  DecStr(tenths \div 10) \o <<".">> \o <<Digit(tenths % 10)>>

(***************************************************************************)
(* models.py                                                               *)
(***************************************************************************)
OperationKeys == {"addition", "subtraction", "multiplication", "division"}

\* MemoryStatus()
MemoryStatus ==
    [ total_problems  |-> 0,
      success_count   |-> 0,
      error_count     |-> 0,
      success_rate    |-> <<"0", "%">>,
      operation_stats |-> [k \in OperationKeys |-> 0],
      recent_history  |-> << >> ]

\* ProblemResult(problem=..., result=..., success=..., strategy_used=..., confidence=...)
ProblemResult(request, t) ==
    [ timestamp     |-> t,
      problem       |-> request.problem,
      result        |-> request.result,
      success       |-> request.success,
      strategy_used |-> request.strategy_used,
      confidence    |-> request.confidence ]

\* StoreResultRequest as built by the callers of the store_result tool
StoreResultRequest(problem, result, success, strategy_used, confidence) ==
    [ problem       |-> problem,
      result        |-> result,
      success       |-> success,
      strategy_used |-> strategy_used,
      confidence    |-> confidence ]

(***************************************************************************)
(* mcp_server.py : ModularMemoryStore                                      *)
(***************************************************************************)
\* the counter updates of store_result, with `elif` in place of the
\* independent tests of _update_operation_stats
update_operation_stats_exclusive(stats, problem) ==
    IF Contains(problem, "+") THEN [stats EXCEPT !["addition"] = @ + 1]
    ELSE IF Contains(problem, "-") THEN [stats EXCEPT !["subtraction"] = @ + 1]
    ELSE IF Contains(problem, "*") \/ Contains(problem, "U+00D7")
              \/ Contains(Lower(problem), "x")
         THEN [stats EXCEPT !["multiplication"] = @ + 1]
    ELSE IF Contains(problem, "/") \/ Contains(problem, "U+00F7")
         THEN [stats EXCEPT !["division"] = @ + 1]
    ELSE stats

\* _update_operation_stats: "U+00D7" is the multiplication sign, "U+00F7" the
\* division sign
update_operation_stats(stats, problem) ==
    LET s1 == IF Contains(problem, "+")
              THEN [stats EXCEPT !["addition"] = @ + 1] ELSE stats
        s2 == IF Contains(problem, "-")
              THEN [s1 EXCEPT !["subtraction"] = @ + 1] ELSE s1
        s3 == IF Contains(problem, "*") \/ Contains(problem, "U+00D7")
                   \/ Contains(Lower(problem), "x")
              THEN [s2 EXCEPT !["multiplication"] = @ + 1] ELSE s2
        s4 == IF Contains(problem, "/") \/ Contains(problem, "U+00F7")
              THEN [s3 EXCEPT !["division"] = @ + 1] ELSE s3
    IN  s4

\* sum(1 for r in records if r.success)
RECURSIVE CountSuccesses(_)
CountSuccesses(records) ==
    IF records = << >> THEN 0
    ELSE (IF Head(records).success THEN 1 ELSE 0) + CountSuccesses(Tail(records))

\* the trend computed over the whole history instead of the last five records
analyze_recent_trend_all(history) ==
    IF Len(history) < 2 THEN <<"insufficient data">>
    ELSE LET recent_successes == CountSuccesses(history)
         IN  IF recent_successes >= 4 THEN <<"strongly improving">>
             ELSE IF recent_successes >= 3 THEN <<"improving">>
             ELSE IF recent_successes >= 2 THEN <<"mixed">>
             ELSE <<"declining">>

\* _analyze_recent_trend
analyze_recent_trend(history) ==
    IF Len(history) < 2 THEN <<"insufficient data">>
    ELSE LET recent_5 == PySliceFrom(history, 0 - TrendWindow)
             recent_successes == CountSuccesses(recent_5)
         IN  IF recent_successes >= 4 THEN <<"strongly improving">>
             ELSE IF recent_successes >= 3 THEN <<"improving">>
             ELSE IF recent_successes >= 2 THEN <<"mixed">>
             ELSE <<"declining">>

\* the counters of store_result with the failure branch left out
CountResult_no_error(status, success) ==
    [status EXCEPT !.total_problems = @ + 1,
                   !.success_count = IF success THEN @ + 1 ELSE @]

\* the counters of store_result with the two branches exchanged
CountResult_swapped(status, success) ==
    [status EXCEPT !.total_problems = @ + 1,
                   !.success_count = IF success THEN @ ELSE @ + 1,
                   !.error_count   = IF success THEN @ + 1 ELSE @]

\* store_result: total_problems += 1, then success_count or error_count += 1
CountResult(status, success) ==
    [status EXCEPT !.total_problems = @ + 1,
                   !.success_count = IF success THEN @ + 1 ELSE @,
                   !.error_count   = IF success THEN @ ELSE @ + 1]

\* the success rate cut off after the first decimal instead of rounded
SuccessRate_truncated(success_count, total_problems) ==
    LET tenths == (1000 * success_count) \div total_problems
    IN  DecStr(tenths \div 10) \o <<".">> \o <<Digit(tenths % 10)>> \o <<"%">>

\* store_result: f"{success_rate:.1f}%"
SuccessRate(success_count, total_problems) ==
    Format1f(success_count, total_problems) \o <<"%">>

\* the first ten records instead of the last ten
RecentHistory_first(history) == SubSeq(history, 1, Min(Len(history), RecentWindow))

\* store_result: self.session_history[-10:]
RecentHistory(history) == PySliceFrom(history, 0 - RecentWindow)

\* str(dict) of operation_stats
OperationStatsStr(stats) ==
    <<"{'addition': ">> \o DecStr(stats["addition"])
    \o <<", 'subtraction': ">> \o DecStr(stats["subtraction"])
    \o <<", 'multiplication': ">> \o DecStr(stats["multiplication"])
    \o <<", 'division': ">> \o DecStr(stats["division"]) \o <<"}">>

FreshStartText == <<"No previous experience. This is a fresh start.">>

\* get_memory_summary that tests error_count >= 0 for the error note
MemorySummary_always_errors(history, status) ==
    LET head ==
            <<"AGENT MEMORY SUMMARY:", "\n- Total Problems Solved: ">>
            \o DecStr(status.total_problems)
            \o <<"\n- Success Rate: ">>
            \o Format1f(status.success_count, status.total_problems)
            \o <<"%", " (">> \o DecStr(status.success_count) \o <<"/">>
            \o DecStr(status.total_problems) \o <<")">>
            \o <<"\n- Operation Experience: ">>
            \o OperationStatsStr(status.operation_stats)
            \o <<"\n- Recent Performance Trend: ">>
            \o analyze_recent_trend(history)
        errors ==
            <<"\n- Recent Errors: ">> \o DecStr(status.error_count)
            \o <<" failures recorded">>
        last == history[Len(history)]
        recap ==
            IF history # << >>
            THEN <<"\n- Last Problem: '">> \o last.problem \o <<"' -> ">>
                 \o last.result
                 \o (IF last.success THEN <<" (SUCCESS)">> ELSE <<" (FAILED)">>)
                 \o (IF last.strategy_used # None /\ last.strategy_used[1] # << >>
                     THEN <<"\n- Last Strategy Used: ">> \o last.strategy_used[1]
                     ELSE << >>)
            ELSE << >>
        summary_text ==
            IF status.total_problems = 0 THEN FreshStartText
            ELSE head \o errors \o recap
    IN  [summary |-> summary_text, raw_data |-> status]

\* get_memory_summary, as a function of the store's state
MemorySummary(history, status) ==
    LET head ==
            <<"AGENT MEMORY SUMMARY:", "\n- Total Problems Solved: ">>
            \o DecStr(status.total_problems)
            \o <<"\n- Success Rate: ">>
            \o Format1f(status.success_count, status.total_problems)
            \o <<"%", " (">> \o DecStr(status.success_count) \o <<"/">>
            \o DecStr(status.total_problems) \o <<")">>
            \o <<"\n- Operation Experience: ">>
            \o OperationStatsStr(status.operation_stats)
            \o <<"\n- Recent Performance Trend: ">>
            \o analyze_recent_trend(history)
        errors ==
            IF status.error_count > 0
            THEN <<"\n- Recent Errors: ">> \o DecStr(status.error_count)
                 \o <<" failures recorded">>
            ELSE << >>
        last == history[Len(history)]
        recap ==
            IF history # << >>
            THEN <<"\n- Last Problem: '">> \o last.problem \o <<"' -> ">>
                 \o last.result
                 \o (IF last.success THEN <<" (SUCCESS)">> ELSE <<" (FAILED)">>)
                 \o (IF last.strategy_used # None /\ last.strategy_used[1] # << >>
                     THEN <<"\n- Last Strategy Used: ">> \o last.strategy_used[1]
                     ELSE << >>)
            ELSE << >>
        summary_text ==
            IF status.total_problems = 0 THEN FreshStartText
            ELSE head \o errors \o recap
    IN  [summary |-> summary_text, raw_data |-> status]

\* the value get_memory_status returns in the current state
get_memory_status == memory_status

\* the value get_memory_summary returns in the current state
get_memory_summary == MemorySummary(session_history, memory_status)

(***************************************************************************)
(* The store's tools (call_tool) as actions.                               *)
(***************************************************************************)
\* the history with the record put in place of an earlier record of the same
\* problem
session_history_append_unique(history, problem_result) ==
    Append(SelectSeq(history, LAMBDA r : r.problem # problem_result.problem),
           problem_result)

\* self.session_history.append(problem_result)
session_history_append(history, problem_result) ==
    Append(history, problem_result)

\* ModularMemoryStore.store_result(request); response is the value returned
memory_store_store_result(request) ==
    LET problem_result == ProblemResult(request, now)
        history == session_history_append(session_history, problem_result)
        counted == CountResult(memory_status, request.success)
        status ==
            [counted EXCEPT
                !.success_rate = SuccessRate(counted.success_count,
                                             counted.total_problems),
                !.operation_stats = update_operation_stats(@, request.problem),
                !.recent_history = RecentHistory(history)]
    IN  /\ session_history' = history
        /\ memory_status' = status
        /\ now' = now + 1
        /\ response' =
              [ tool |-> "store_result",
                body |-> [ status         |-> <<"Result stored successfully">>,
                           problem        |-> request.problem,
                           result         |-> request.result,
                           success        |-> request.success,
                           total_problems |-> status.total_problems ] ]

\* call_tool("store_result", ...), the call made and served in one step
store_result(request) ==
    /\ memory_store_store_result(request)
    /\ UNCHANGED <<run, caller, tool_calls>>

ResetMemoryResponse ==
    [ status  |-> <<"Memory reset successfully">>,
      message |-> <<"All learning history cleared. Agent will start fresh with conservative approach.">> ]

\* reset_memory that clears the history and leaves the statistics
reset_memory_history_only ==
    /\ session_history' = << >>
    /\ response' = [tool |-> "reset_memory", body |-> ResetMemoryResponse]
    /\ UNCHANGED <<memory_status, now, run, caller, tool_calls>>

\* reset_memory that renews the statistics and leaves the history
reset_memory_status_only ==
    /\ memory_status' = MemoryStatus
    /\ response' = [tool |-> "reset_memory", body |-> ResetMemoryResponse]
    /\ UNCHANGED <<session_history, now, run, caller, tool_calls>>

\* call_tool("reset_memory") -> ModularMemoryStore.reset_memory.  The store
\* binds memory_status to a new object: the object it held before lives on,
\* with the content it had, where a caller still refers to it.
reset_memory ==
    /\ session_history' = << >>
    /\ memory_status' = MemoryStatus
    /\ response' = [tool |-> "reset_memory", body |-> ResetMemoryResponse]
    /\ caller' = IF caller.ref = "store"
                 THEN [caller EXCEPT !.ref = "replaced", !.replaced = memory_status]
                 ELSE caller
    /\ UNCHANGED <<now, run, tool_calls>>

\* call_tool("get_memory_status")
call_get_memory_status ==
    /\ response' = [tool |-> "get_memory_status", body |-> get_memory_status]
    /\ UNCHANGED <<session_history, memory_status, now, run, caller, tool_calls>>

\* call_tool("get_memory_summary")
call_get_memory_summary ==
    /\ response' = [tool |-> "get_memory_summary", body |-> get_memory_summary]
    /\ UNCHANGED <<session_history, memory_status, now, run, caller, tool_calls>>

\* the value of a decimal digit character
DigitValue(c) == CHOOSE d \in 0..9 : Digit(d) = c

\* int(s) for a string of decimal digits
RECURSIVE ParseInt(_)
ParseInt(s) ==
    IF s = << >> THEN 0
    ELSE 10 * ParseInt(SubSeq(s, 1, Len(s) - 1)) + DigitValue(s[Len(s)])

\* float(text.replace('%', '')) for a percentage with at most one decimal,
\* in tenths of a percent
PercentValue(text) ==
    LET digits == SelectSeq(text, LAMBDA c : c # "%")
        dots   == {i \in 1..Len(digits) : digits[i] = "."}
    IN  IF dots = {} THEN 10 * ParseInt(digits)
        ELSE LET i == CHOOSE j \in dots : TRUE
             IN  10 * ParseInt(SubSeq(digits, 1, i - 1))
                   + ParseInt(SubSeq(digits, i + 1, Len(digits)))

\* the keys of operation_stats in the order the dict holds them
OperationOrder == <<"addition", "subtraction", "multiplication", "division">>

\* max(stats, key=stats.get): the first key, in dict order, of the largest
\* count
MostExperienced(stats) ==
    LET i == CHOOSE j \in 1..Len(OperationOrder) :
                 /\ \A k \in 1..Len(OperationOrder) :
                        stats[OperationOrder[k]] <= stats[OperationOrder[j]]
                 /\ \A k \in 1..(j - 1) :
                        stats[OperationOrder[k]] < stats[OperationOrder[j]]
    IN  <<OperationOrder[i]>>

\* min(stats, key=stats.get): the first key, in dict order, of the smallest
\* count
LeastExperienced(stats) ==
    LET i == CHOOSE j \in 1..Len(OperationOrder) :
                 /\ \A k \in 1..Len(OperationOrder) :
                        stats[OperationOrder[k]] >= stats[OperationOrder[j]]
                 /\ \A k \in 1..(j - 1) :
                        stats[OperationOrder[k]] > stats[OperationOrder[j]]
    IN  <<OperationOrder[i]>>

\* the recommendations with the thresholds compared strictly
Recommendations_strict(status) ==
    IF status.total_problems = 0
    THEN << <<"No experience yet - start with simple problems">> >>
    ELSE IF PercentValue(status.success_rate) > 800
    THEN << <<"High success rate - can attempt more complex problems">>,
            <<"Consider using confident_direct strategy">> >>
    ELSE IF PercentValue(status.success_rate) > 600
    THEN << <<"Good success rate - maintain balanced approach">>,
            <<"Continue with standard_verification strategy">> >>
    ELSE << <<"Lower success rate - focus on conservative approach">>,
            <<"Use step_by_step_verification for learning">> >>

\* analysis["recommendations"], by the store's success rate
Recommendations(status) ==
    IF status.total_problems = 0
    THEN << <<"No experience yet - start with simple problems">> >>
    ELSE IF PercentValue(status.success_rate) >= 800
    THEN << <<"High success rate - can attempt more complex problems">>,
            <<"Consider using confident_direct strategy">> >>
    ELSE IF PercentValue(status.success_rate) >= 600
    THEN << <<"Good success rate - maintain balanced approach">>,
            <<"Continue with standard_verification strategy">> >>
    ELSE << <<"Lower success rate - focus on conservative approach">>,
            <<"Use step_by_step_verification for learning">> >>

\* the analysis of analyze_performance_trends
PerformanceAnalysis(history, status) ==
    LET experienced == \E k \in OperationKeys : status.operation_stats[k] # 0
    IN  [ overall_performance |->
              [ total_problems |-> status.total_problems,
                success_rate   |-> status.success_rate,
                error_rate     |->
                    IF status.total_problems > 0
                    THEN Format1f(status.error_count, status.total_problems)
                           \o <<"%">>
                    ELSE <<"0", "%">> ],
          operation_analysis |->
              [ most_experienced  |-> IF experienced
                                      THEN MostExperienced(status.operation_stats)
                                      ELSE <<"none">>,
                least_experienced |-> IF experienced
                                      THEN LeastExperienced(status.operation_stats)
                                      ELSE <<"none">>,
                operation_distribution |-> status.operation_stats ],
          learning_trend  |-> analyze_recent_trend(history),
          recommendations |-> Recommendations(status) ]

\* call_tool("analyze_performance_trends")
call_analyze_performance_trends ==
    /\ response' = [ tool |-> "analyze_performance_trends",
                     body |-> PerformanceAnalysis(session_history, memory_status) ]
    /\ UNCHANGED <<session_history, memory_status, now, run, caller, tool_calls>>

\* arguments.get("limit", 5)
DefaultLimit == 5

\* session_history[-limit:], with limit = 0 giving no record
RecentProblems_bounded(history, limit) ==
    IF history # << >> /\ limit > 0 THEN PySliceFrom(history, 0 - limit) ELSE << >>

\* memory_store.session_history[-limit:] if memory_store.session_history
\* else []
RecentProblems(history, limit) ==
    IF history # << >> THEN PySliceFrom(history, 0 - limit) ELSE << >>

\* history_data of get_recent_history; arguments.limit is None where the
\* call names no limit
HistoryData(history, arguments) ==
    LET limit == IF arguments.limit = None THEN DefaultLimit
                 ELSE arguments.limit[1]
        recent_history == RecentProblems(history, limit)
    IN  [ recent_problems |-> recent_history,
          count    |-> Len(recent_history),
          analysis |->
              [ success_rate |->
                    IF recent_history # << >>
                    THEN Format1f(CountSuccesses(recent_history),
                                  Len(recent_history)) \o <<"%">>
                    ELSE <<"0", "%">>,
                most_recent_result |->
                    IF recent_history # << >>
                    THEN Some(recent_history[Len(recent_history)])
                    ELSE None,
                trend |-> analyze_recent_trend(history) ] ]

\* get_recent_history that takes the records it returns out of the history
call_get_recent_history_consuming(arguments) ==
    LET history_data == HistoryData(session_history, arguments)
    IN  /\ response' = [ tool      |-> "get_recent_history",
                         arguments |-> arguments,
                         body      |-> history_data ]
        /\ session_history' =
              SubSeq(session_history, 1, Len(session_history) - history_data.count)
        /\ UNCHANGED <<memory_status, now, run, caller, tool_calls>>

\* call_tool("get_recent_history", arguments)
call_get_recent_history(arguments) ==
    /\ response' = [ tool      |-> "get_recent_history",
                     arguments |-> arguments,
                     body      |-> HistoryData(session_history, arguments) ]
    /\ UNCHANGED <<session_history, memory_status, now, run, caller, tool_calls>>

(***************************************************************************)
(* A caller of ModularMemoryStore.get_memory_status in the server's own    *)
(* process.  `return self.memory_status` hands out the object the store    *)
(* goes on updating: caller.ref says which object the caller holds         *)
(* ("none", "store": the store's current one, "replaced": one the store    *)
(* has dropped in reset_memory), caller.returned its content when it was   *)
(* returned, caller.replaced its content when the store dropped it.        *)
(***************************************************************************)
NoCaller == [ref |-> "none", returned |-> MemoryStatus, replaced |-> MemoryStatus]

\* status = memory_store.get_memory_status()
caller_get_memory_status ==
    /\ caller' = [ ref |-> "store", returned |-> get_memory_status,
                   replaced |-> get_memory_status ]
    /\ UNCHANGED <<session_history, memory_status, now, response, run, tool_calls>>

\* what the caller reads now in the object it holds
HeldStatus ==
    CASE caller.ref = "store" -> memory_status
      [] caller.ref = "replaced" -> caller.replaced
      [] OTHER -> caller.returned

(***************************************************************************)
(* store_result tool calls of concurrent client runs.  A run sends its     *)
(* call and waits for the reply (client.py); the server's handler          *)
(* (call_tool) has no await in it, so it runs from the request to the      *)
(* reply without another handler in between, in whatever order the calls   *)
(* in flight are taken up.                                                 *)
(***************************************************************************)
\* For a run of solve_with_complete_cognitive_analysis the record also holds
\* flow, the position of the client coroutine ("none" outside such a run),
\* the expression it was called with and the memory_summary it has read.
NoCalls ==
    [ pending        |-> None,
      replies        |-> << >>,
      flow           |-> "none",
      expression     |-> << >>,
      memory_summary |-> None ]

\* client.py: await self.session.call_tool("store_result", arguments=...)
client_store_result(id, request) ==
    /\ tool_calls[id].pending = None
    /\ Len(tool_calls[id].replies) < MaxCalls
    /\ tool_calls' = [tool_calls EXCEPT ![id].pending = Some(request)]
    /\ UNCHANGED <<session_history, memory_status, now, response, run, caller>>

\* the handler that builds its reply from the status as it was before the
\* update
call_tool_store_result_early_reply(id) ==
    /\ tool_calls[id].pending # None
    /\ memory_store_store_result(tool_calls[id].pending[1])
    /\ tool_calls' =
          [tool_calls EXCEPT
              ![id].pending = None,
              ![id].replies = Append(@, [response'.body EXCEPT !.total_problems =
                                            memory_status.total_problems])]
    /\ UNCHANGED <<run, caller>>

\* call_tool("store_result", arguments) serving the call of run id
call_tool_store_result(id) ==
    /\ tool_calls[id].pending # None
    /\ memory_store_store_result(tool_calls[id].pending[1])
    /\ tool_calls' = [tool_calls EXCEPT ![id].pending = None,
                                        ![id].replies = Append(@, response'.body)]
    /\ UNCHANGED <<run, caller>>

(***************************************************************************)
(* Inputs of the store.                                                    *)
(***************************************************************************)
Requests ==
    { StoreResultRequest(<<"5", " ", "+", " ", "3">>, <<"8">>, TRUE,
                         Some(<<"direct_calculation">>), Some(90)),
      StoreResultRequest(<<"1", "/", "0">>,
                         <<"E", "r", "r", "o", "r", ":", " ", "Division by zero">>,
                         FALSE, Some(<<"conservative_detailed">>), Some(0)),
      StoreResultRequest(<<"2", "*", "3">>, <<"6">>, TRUE, None, None),
      StoreResultRequest(<<"3", " ", "+", " ", "4", "x", "5">>, <<"2", "3">>, TRUE,
                         Some(<<"standard_with_check">>), Some(80)),
      StoreResultRequest(<<"3", " ", "X", " ", "4">>, <<"1", "2">>, TRUE,
                         Some(<< >>), None),
      StoreResultRequest(<<"9", " ", "-", " ", "4", " ", "-", " ", "1">>, <<"4">>,
                         FALSE, None, Some(50)),
      StoreResultRequest(<<"6", " ", "U+00F7", " ", "2">>, <<"3">>, TRUE, None, None),
      StoreResultRequest(<<"2", " ", "U+00D7", " ", "3">>, <<"6">>, FALSE, None, None),
      StoreResultRequest(<<"4", "2">>, <<"4", "2">>, TRUE, None, None) }

\* the two requests of the long histories
LongRequests ==
    { StoreResultRequest(<<"2", "*", "3">>, <<"6">>, TRUE,
                         Some(<<"direct_calculation">>), Some(90)),
      StoreResultRequest(<<"1", "/", "0">>,
                         <<"E", "r", "r", "o", "r", ":", " ", "Division by zero">>,
                         FALSE, Some(<<"conservative_detailed">>), Some(0)) }

(***************************************************************************)
(* The oracle (model.generate_content) and the raw text it returns.        *)
(* A raw text is a sequence of tokens: whitespace, the characters of a     *)
(* Markdown fence, other characters, and JSON documents, one token each    *)
(* ("json:..."): json.loads accepts a text exactly when it is one such     *)
(* document.  "U+0060" is the backquote.  The texts the oracle returns    *)
(* and the messages of its exceptions are texts the console can print.     *)
(***************************************************************************)
Whitespace == {" ", "\n"}

\* str.strip()
RECURSIVE LStrip(_)
LStrip(s) == IF s # << >> /\ Head(s) \in Whitespace THEN LStrip(Tail(s)) ELSE s

RECURSIVE RStrip(_)
RStrip(s) ==
    IF s # << >> /\ s[Len(s)] \in Whitespace THEN RStrip(SubSeq(s, 1, Len(s) - 1)) ELSE s

Strip(s) == RStrip(LStrip(s))

\* the tokens that are one character; a JSON document and a stretch of
\* prose are tokens of more than three characters
Characters == Whitespace \cup {"U+0060", "j", "s", "o", "n"}

\* s[:-back]: the text without its last `back` characters.  What is left of
\* a longer token whose end is cut off is the token "<cut>".
RECURSIVE DropLast(_, _)
DropLast(s, back) ==
    IF back = 0 \/ s = << >> THEN s
    ELSE IF s[Len(s)] \in Characters
         THEN DropLast(SubSeq(s, 1, Len(s) - 1), back - 1)
         ELSE SubSeq(s, 1, Len(s) - 1) \o <<"<cut>">>

\* s[start:-back] for start, back >= 0, where the first `start` tokens of s
\* are characters
PySliceBetween(s, start, back) == DropLast(SubSeq(s, start + 1, Len(s)), back)

FenceJson == <<"U+0060", "U+0060", "U+0060", "j", "s", "o", "n">>
Fence == <<"U+0060", "U+0060", "U+0060">>

\* the JSON documents of the Perception oracle
PerceptionDocs ==
    { "json:perception_valid", "json:perception_invalid",
      "json:perception_invalid_no_message", "json:perception_bad_complexity",
      "json:perception_bad_difficulty", "json:perception_missing_notes",
      "json:array" }

\* the JSON documents of the Memory oracle
MemoryDocs ==
    { "json:memory_standard", "json:memory_confident", "json:memory_low_modifier",
      "json:memory_bad_strategy", "json:memory_missing_insights", "json:array" }

\* the JSON documents of the Decision oracle
DecisionDocs ==
    { "json:decision_direct", "json:decision_direct_low_confidence",
      "json:decision_bad_confidence", "json:decision_bad_method",
      "json:decision_missing_risk", "json:array" }

\* the JSON documents of the Action oracle
ActionDocs ==
    { "json:action_8", "json:action_number", "json:action_error",
      "json:action_lowercase_error", "json:action_confidence_high",
      "json:action_confidence_text", "json:action_confidence_numeric_text",
      "json:action_steps_text",
      "json:action_missing_verification", "json:array" }

JsonDocs == PerceptionDocs \cup MemoryDocs \cup DecisionDocs \cup ActionDocs

\* Values of the Action oracle's JSON carry their JSON type:
\* [t |-> "str", v |-> text], [t |-> "int", v |-> n],
\* [t |-> "float", v |-> hundredths], [t |-> "null"], [t |-> "list", v |-> items]
JStr(v) == [t |-> "str", v |-> v]
JInt(v) == [t |-> "int", v |-> v]
JFloat(v) == [t |-> "float", v |-> v]
JNull == [t |-> "null", v |-> << >>]
JList(v) == [t |-> "list", v |-> v]

ErrorResultText == <<"E", "r", "r", "o", "r", ":", " ", "Division by zero">>

\* json.loads of a document: [kind |-> "object", value |-> fields] or an array
JsonValue(doc) ==
    CASE doc = "json:perception_valid" ->
           [kind |-> "object", value |->
              [ is_valid |-> TRUE, operands |-> <<5, 3>>, operators |-> <<"+">>,
                complexity |-> "simple", requires_order_ops |-> FALSE,
                estimated_difficulty |-> 1, error_message |-> None,
                perception_notes |-> <<"basic addition">> ]]
      [] doc = "json:perception_invalid" ->
           [kind |-> "object", value |->
              [ is_valid |-> FALSE, operands |-> << >>, operators |-> << >>,
                complexity |-> "medium", requires_order_ops |-> FALSE,
                estimated_difficulty |-> 3,
                error_message |-> Some(<<"not a mathematical expression">>),
                perception_notes |-> <<"no operands found">> ]]
      [] doc = "json:perception_invalid_no_message" ->
           [kind |-> "object", value |->
              [ is_valid |-> FALSE, operands |-> << >>, operators |-> << >>,
                complexity |-> "simple", requires_order_ops |-> FALSE,
                estimated_difficulty |-> 1,
                perception_notes |-> <<"nonsensical">> ]]
      [] doc = "json:perception_bad_complexity" ->
           [kind |-> "object", value |->
              [ is_valid |-> TRUE, operands |-> <<5, 3>>, operators |-> <<"+">>,
                complexity |-> "hard", requires_order_ops |-> FALSE,
                estimated_difficulty |-> 1, error_message |-> None,
                perception_notes |-> <<"basic addition">> ]]
      [] doc = "json:perception_bad_difficulty" ->
           [kind |-> "object", value |->
              [ is_valid |-> TRUE, operands |-> <<5, 3>>, operators |-> <<"+">>,
                complexity |-> "complex", requires_order_ops |-> TRUE,
                estimated_difficulty |-> 11, error_message |-> None,
                perception_notes |-> <<"very hard">> ]]
      [] doc = "json:perception_missing_notes" ->
           [kind |-> "object", value |->
              [ is_valid |-> TRUE, operands |-> <<5, 3>>, operators |-> <<"+">>,
                complexity |-> "simple", requires_order_ops |-> FALSE,
                estimated_difficulty |-> 1, error_message |-> None ]]
      [] doc = "json:memory_standard" ->
           [kind |-> "object", value |->
              [ session_success_rate |-> <<"good">>,
                strategy_recommendation |-> "standard_verification",
                confidence_modifier |-> 90, similar_problems_found |-> 2,
                memory_insights |-> <<"seen before">>,
                recommended_approach |-> <<"verify once">> ]]
      [] doc = "json:memory_confident" ->
           [kind |-> "object", value |->
              [ session_success_rate |-> <<"excellent">>,
                strategy_recommendation |-> "confident_direct",
                confidence_modifier |-> 100, similar_problems_found |-> 0,
                memory_insights |-> <<"strong record">>,
                recommended_approach |-> <<"go direct">> ]]
      [] doc = "json:memory_low_modifier" ->
           [kind |-> "object", value |->
              [ session_success_rate |-> <<"poor">>,
                strategy_recommendation |-> "conservative_approach",
                confidence_modifier |-> 40, similar_problems_found |-> 1,
                memory_insights |-> <<"many failures">>,
                recommended_approach |-> <<"be careful">> ]]
      [] doc = "json:memory_bad_strategy" ->
           [kind |-> "object", value |->
              [ session_success_rate |-> <<"good">>,
                strategy_recommendation |-> "aggressive",
                confidence_modifier |-> 80, similar_problems_found |-> 0 - 1,
                memory_insights |-> <<"none">>,
                recommended_approach |-> <<"none">> ]]
      [] doc = "json:memory_missing_insights" ->
           [kind |-> "object", value |->
              [ session_success_rate |-> <<"good">>,
                strategy_recommendation |-> "standard_verification",
                confidence_modifier |-> 80, similar_problems_found |-> 0,
                recommended_approach |-> <<"verify once">> ]]
      [] doc = "json:decision_direct" ->
           [kind |-> "object", value |->
              [ selected_method |-> "direct_calculation", final_confidence |-> 90,
                show_working_steps |-> FALSE, verification_level |-> "minimal",
                reasoning |-> <<"simple problem">>,
                execution_strategy |-> <<"compute">>, risk_assessment |-> "low" ]]
      [] doc = "json:decision_direct_low_confidence" ->
           [kind |-> "object", value |->
              [ selected_method |-> "direct_calculation", final_confidence |-> 10,
                show_working_steps |-> FALSE, verification_level |-> "minimal",
                reasoning |-> <<"unsure">>,
                execution_strategy |-> <<"compute">>, risk_assessment |-> "medium" ]]
      [] doc = "json:decision_bad_confidence" ->
           [kind |-> "object", value |->
              [ selected_method |-> "standard_with_check", final_confidence |-> 150,
                show_working_steps |-> TRUE, verification_level |-> "standard",
                reasoning |-> <<"sure">>,
                execution_strategy |-> <<"compute">>, risk_assessment |-> "low" ]]
      [] doc = "json:decision_bad_method" ->
           [kind |-> "object", value |->
              [ selected_method |-> "guess", final_confidence |-> 70,
                show_working_steps |-> TRUE, verification_level |-> "none",
                reasoning |-> <<"sure">>,
                execution_strategy |-> <<"compute">>, risk_assessment |-> "low" ]]
      [] doc = "json:decision_missing_risk" ->
           [kind |-> "object", value |->
              [ selected_method |-> "standard_with_check", final_confidence |-> 70,
                show_working_steps |-> TRUE, verification_level |-> "standard",
                reasoning |-> <<"sure">>, execution_strategy |-> <<"compute">> ]]
      [] doc = "json:action_8" ->
           [kind |-> "object", value |->
              [ result |-> JStr(<<"8">>),
                steps |-> JList(<<JStr(<<"5 + 3 = 8">>)>>),
                confidence |-> JFloat(95),
                verification |-> JStr(<<"8 - 3 = 5">>),
                execution_notes |-> JStr(<<"direct">>) ]]
      [] doc = "json:action_number" ->
           [kind |-> "object", value |->
              [ result |-> JInt(8),
                steps |-> JList(<<JStr(<<"add">>), JInt(8)>>),
                confidence |-> JInt(1),
                verification |-> JNull,
                execution_notes |-> JStr(<<"direct">>) ]]
      [] doc = "json:action_error" ->
           [kind |-> "object", value |->
              [ result |-> JStr(ErrorResultText),
                steps |-> JList(<<JStr(<<"cannot divide by zero">>)>>),
                confidence |-> JFloat(100),
                verification |-> JStr(<<"undefined">>),
                execution_notes |-> JStr(<<"edge case">>) ]]
      [] doc = "json:action_lowercase_error" ->
           [kind |-> "object", value |->
              [ result |-> JStr(<<"e", "r", "r", "o", "r">>),
                steps |-> JList(<< >>),
                confidence |-> JFloat(20),
                verification |-> JStr(<<"none">>),
                execution_notes |-> JStr(<<"none">>) ]]
      [] doc = "json:action_confidence_high" ->
           [kind |-> "object", value |->
              [ result |-> JStr(<<"8">>),
                steps |-> JList(<<JStr(<<"5 + 3 = 8">>)>>),
                confidence |-> JFloat(150),
                verification |-> JStr(<<"checked">>),
                execution_notes |-> JStr(<<"direct">>) ]]
      [] doc = "json:action_confidence_text" ->
           [kind |-> "object", value |->
              [ result |-> JStr(<<"8">>),
                steps |-> JList(<<JStr(<<"5 + 3 = 8">>)>>),
                confidence |-> JStr(<<"high">>),
                verification |-> JStr(<<"checked">>),
                execution_notes |-> JStr(<<"direct">>) ]]
      [] doc = "json:action_confidence_numeric_text" ->
           [kind |-> "object", value |->
              [ result |-> JStr(<<"8">>),
                steps |-> JList(<<JStr(<<"5 + 3 = 8">>)>>),
                confidence |-> JStr(<<"0", ".", "9">>),
                verification |-> JStr(<<"checked">>),
                execution_notes |-> JStr(<<"direct">>) ]]
      [] doc = "json:action_steps_text" ->
           [kind |-> "object", value |->
              [ result |-> JNull,
                steps |-> JStr(<<"5 + 3 = 8">>),
                confidence |-> JFloat(0 - 20),
                verification |-> JStr(<<"checked">>),
                execution_notes |-> JInt(0) ]]
      [] doc = "json:action_missing_verification" ->
           [kind |-> "object", value |->
              [ result |-> JStr(<<"8">>),
                steps |-> JList(<<JStr(<<"5 + 3 = 8">>)>>),
                confidence |-> JFloat(95),
                execution_notes |-> JStr(<<"direct">>) ]]
      [] OTHER -> [kind |-> "array", value |-> << >>]

\* what a try block produced: a value, or the text of the exception raised
Returned(v) == [ok |-> TRUE, value |-> v, error |-> << >>]
Raised(msg) == [ok |-> FALSE, value |-> << >>, error |-> msg]

\* _parse_llm_response that leaves the fences in the text
parse_llm_response_no_strip(response_text) ==
    LET json_text == Strip(response_text)
    IN  IF Len(json_text) = 1 /\ json_text[1] \in JsonDocs
        THEN Returned(JsonValue(json_text[1]))
        ELSE Raised(<<"Failed to parse LLM response as JSON: ", "<JSONDecodeError>">>)

\* _parse_llm_response (the same in perception.py, memory.py, decision.py and
\* action.py)
parse_llm_response(response_text) ==
    LET stripped == Strip(response_text)
        unfenced ==
            IF StartsWith(stripped, FenceJson) THEN PySliceBetween(stripped, 7, 3)
            ELSE IF StartsWith(stripped, Fence) THEN PySliceBetween(stripped, 3, 3)
            ELSE stripped
        json_text == Strip(unfenced)
    IN  IF Len(json_text) = 1 /\ json_text[1] \in JsonDocs
        THEN Returned(JsonValue(json_text[1]))
        ELSE Raised(<<"Failed to parse LLM response as JSON: ", "<JSONDecodeError>">>)

\* the exception texts of the model: str(e)
OracleErrorText == <<"<exception raised by generate_content>">>
NotAMappingText == <<"<TypeError: argument after ** must be a mapping>">>
ValidationErrorText(model) == <<"<ValidationError for ", model, ">">>

\* f"Error: {...}"
ErrorPrefix == <<"E", "r", "r", "o", "r", ":", " ">>

\* str(x) for an Optional[str]
OptStr(x) == IF x = None THEN <<"None">> ELSE x[1]

(***************************************************************************)
(* models.py : the validated constructors of the stage outputs.            *)
(***************************************************************************)
PerceptionRequired ==
    { "is_valid", "operands", "operators", "complexity", "requires_order_ops",
      "estimated_difficulty", "perception_notes" }

\* PerceptionOutput without the Literal and the ge/le constraints
PerceptionOutput_unchecked(parsed) ==
    IF parsed.kind # "object" THEN Raised(NotAMappingText)
    ELSE LET d == parsed.value
         IN  IF PerceptionRequired \subseteq DOMAIN d
             THEN Returned(
                    [ is_valid             |-> d.is_valid,
                      operands             |-> d.operands,
                      operators            |-> d.operators,
                      complexity           |-> d.complexity,
                      requires_order_ops   |-> d.requires_order_ops,
                      estimated_difficulty |-> d.estimated_difficulty,
                      error_message        |-> IF "error_message" \in DOMAIN d
                                               THEN d.error_message ELSE None,
                      perception_notes     |-> d.perception_notes ])
             ELSE Raised(ValidationErrorText("PerceptionOutput"))

\* PerceptionOutput(**result_dict)
PerceptionOutput(parsed) ==
    IF parsed.kind # "object" THEN Raised(NotAMappingText)
    ELSE LET d == parsed.value
         IN  IF /\ PerceptionRequired \subseteq DOMAIN d
                /\ d.complexity \in {"simple", "medium", "complex"}
                /\ d.estimated_difficulty >= 1
                /\ d.estimated_difficulty <= 10
             THEN Returned(
                    [ is_valid             |-> d.is_valid,
                      operands             |-> d.operands,
                      operators            |-> d.operators,
                      complexity           |-> d.complexity,
                      requires_order_ops   |-> d.requires_order_ops,
                      estimated_difficulty |-> d.estimated_difficulty,
                      error_message        |-> IF "error_message" \in DOMAIN d
                                               THEN d.error_message ELSE None,
                      perception_notes     |-> d.perception_notes ])
             ELSE Raised(ValidationErrorText("PerceptionOutput"))

MemoryRequired ==
    { "session_success_rate", "strategy_recommendation", "confidence_modifier",
      "similar_problems_found", "memory_insights", "recommended_approach" }

\* MemoryOutput without the Literal and the ge/le constraints
MemoryOutput_unchecked(parsed) ==
    IF parsed.kind # "object" THEN Raised(NotAMappingText)
    ELSE LET d == parsed.value
         IN  IF MemoryRequired \subseteq DOMAIN d
             THEN Returned(
                    [ session_success_rate    |-> d.session_success_rate,
                      strategy_recommendation |-> d.strategy_recommendation,
                      confidence_modifier     |-> d.confidence_modifier,
                      similar_problems_found  |-> d.similar_problems_found,
                      memory_insights         |-> d.memory_insights,
                      recommended_approach    |-> d.recommended_approach ])
             ELSE Raised(ValidationErrorText("MemoryOutput"))

\* MemoryOutput(**result_dict)
MemoryOutput(parsed) ==
    IF parsed.kind # "object" THEN Raised(NotAMappingText)
    ELSE LET d == parsed.value
         IN  IF /\ MemoryRequired \subseteq DOMAIN d
                /\ d.strategy_recommendation \in
                     {"conservative_approach", "standard_verification", "confident_direct"}
                /\ d.confidence_modifier >= 50
                /\ d.confidence_modifier <= 100
                /\ d.similar_problems_found >= 0
             THEN Returned(
                    [ session_success_rate    |-> d.session_success_rate,
                      strategy_recommendation |-> d.strategy_recommendation,
                      confidence_modifier     |-> d.confidence_modifier,
                      similar_problems_found  |-> d.similar_problems_found,
                      memory_insights         |-> d.memory_insights,
                      recommended_approach    |-> d.recommended_approach ])
             ELSE Raised(ValidationErrorText("MemoryOutput"))

DecisionRequired ==
    { "selected_method", "final_confidence", "show_working_steps",
      "verification_level", "reasoning", "execution_strategy", "risk_assessment" }

\* DecisionOutput without the Literal and the ge/le constraints
DecisionOutput_unchecked(parsed) ==
    IF parsed.kind # "object" THEN Raised(NotAMappingText)
    ELSE LET d == parsed.value
         IN  IF DecisionRequired \subseteq DOMAIN d
             THEN Returned(
                    [ selected_method    |-> d.selected_method,
                      final_confidence   |-> d.final_confidence,
                      show_working_steps |-> d.show_working_steps,
                      verification_level |-> d.verification_level,
                      reasoning          |-> d.reasoning,
                      execution_strategy |-> d.execution_strategy,
                      risk_assessment    |-> d.risk_assessment ])
             ELSE Raised(ValidationErrorText("DecisionOutput"))

\* DecisionOutput without the ge/le constraints of final_confidence
DecisionOutput_any_confidence(parsed) ==
    IF parsed.kind # "object" THEN Raised(NotAMappingText)
    ELSE LET d == parsed.value
         IN  IF /\ DecisionRequired \subseteq DOMAIN d
                /\ d.selected_method \in
                     { "direct_calculation", "standard_with_check",
                       "step_by_step_verification", "conservative_detailed" }
                /\ d.verification_level \in {"minimal", "standard", "high", "extra"}
                /\ d.risk_assessment \in {"low", "medium", "high"}
             THEN Returned(
                    [ selected_method    |-> d.selected_method,
                      final_confidence   |-> d.final_confidence,
                      show_working_steps |-> d.show_working_steps,
                      verification_level |-> d.verification_level,
                      reasoning          |-> d.reasoning,
                      execution_strategy |-> d.execution_strategy,
                      risk_assessment    |-> d.risk_assessment ])
             ELSE Raised(ValidationErrorText("DecisionOutput"))

\* DecisionOutput(**result_dict)
DecisionOutput(parsed) ==
    IF parsed.kind # "object" THEN Raised(NotAMappingText)
    ELSE LET d == parsed.value
         IN  IF /\ DecisionRequired \subseteq DOMAIN d
                /\ d.selected_method \in
                     { "direct_calculation", "standard_with_check",
                       "step_by_step_verification", "conservative_detailed" }
                /\ d.final_confidence >= 0
                /\ d.final_confidence <= 100
                /\ d.verification_level \in {"minimal", "standard", "high", "extra"}
                /\ d.risk_assessment \in {"low", "medium", "high"}
             THEN Returned(
                    [ selected_method    |-> d.selected_method,
                      final_confidence   |-> d.final_confidence,
                      show_working_steps |-> d.show_working_steps,
                      verification_level |-> d.verification_level,
                      reasoning          |-> d.reasoning,
                      execution_strategy |-> d.execution_strategy,
                      risk_assessment    |-> d.risk_assessment ])
             ELSE Raised(ValidationErrorText("DecisionOutput"))

ActionRequired == {"result", "steps", "confidence", "verification", "execution_notes"}

\* the float a confidence field validates to, in hundredths
ConfidenceValue(j) == IF j.t = "int" THEN 100 * j.v ELSE j.v

\* ActionOutput with verification and execution_notes optional, an empty
\* text standing in for a missing one
ActionOutput_lenient(parsed) ==
    IF parsed.kind # "object" THEN Raised(NotAMappingText)
    ELSE LET d == parsed.value
             text(k) == IF k \in DOMAIN d THEN d[k] ELSE JStr(<< >>)
         IN  IF /\ {"result", "steps", "confidence"} \subseteq DOMAIN d
                /\ d.result.t = "str"
                /\ d.steps.t = "list"
                /\ \A i \in 1..Len(d.steps.v) : d.steps.v[i].t = "str"
                /\ d.confidence.t \in {"float", "int"}
                /\ ConfidenceValue(d.confidence) >= 0
                /\ ConfidenceValue(d.confidence) <= 100
                /\ text("verification").t = "str"
                /\ text("execution_notes").t = "str"
             THEN Returned(
                    [ result          |-> d.result.v,
                      steps           |-> [i \in 1..Len(d.steps.v) |-> d.steps.v[i].v],
                      confidence      |-> ConfidenceValue(d.confidence),
                      verification    |-> text("verification").v,
                      execution_notes |-> text("execution_notes").v ])
             ELSE Raised(ValidationErrorText("ActionOutput"))

\* ActionOutput(**result_dict)
ActionOutput(parsed) ==
    IF parsed.kind # "object" THEN Raised(NotAMappingText)
    ELSE LET d == parsed.value
         IN  IF /\ ActionRequired \subseteq DOMAIN d
                /\ d.result.t = "str"
                /\ d.steps.t = "list"
                /\ \A i \in 1..Len(d.steps.v) : d.steps.v[i].t = "str"
                /\ d.confidence.t \in {"float", "int"}
                /\ ConfidenceValue(d.confidence) >= 0
                /\ ConfidenceValue(d.confidence) <= 100
                /\ d.verification.t = "str"
                /\ d.execution_notes.t = "str"
             THEN Returned(
                    [ result          |-> d.result.v,
                      steps           |-> [i \in 1..Len(d.steps.v) |-> d.steps.v[i].v],
                      confidence      |-> ConfidenceValue(d.confidence),
                      verification    |-> d.verification.v,
                      execution_notes |-> d.execution_notes.v ])
             ELSE Raised(ValidationErrorText("ActionOutput"))

(***************************************************************************)
(* perception.py, memory.py, decision.py                                   *)
(***************************************************************************)
\* PerceptionAgent._create_error_response
perception_create_error_response(expression, error_msg) ==
    [ is_valid             |-> FALSE,
      operands             |-> << >>,
      operators            |-> << >>,
      complexity           |-> "simple",
      requires_order_ops   |-> FALSE,
      estimated_difficulty |-> 1,
      error_message        |-> Some(<<"Perception analysis failed: ">> \o error_msg),
      perception_notes     |-> <<"Failed to analyze expression '">> \o expression
                               \o <<"' due to: ">> \o error_msg ]

\* PerceptionAgent.analyze, from the outcome of its oracle call on
perception_analyze(input_data, oracle) ==
    IF oracle.raises
    THEN perception_create_error_response(input_data.expression, OracleErrorText)
    ELSE LET result_dict == parse_llm_response(oracle.text)
         IN  IF ~result_dict.ok
             THEN perception_create_error_response(input_data.expression,
                                                   result_dict.error)
             ELSE LET result == PerceptionOutput(result_dict.value)
                  IN  IF result.ok THEN result.value
                      ELSE perception_create_error_response(input_data.expression,
                                                            result.error)

\* MemoryAgent._create_error_response
memory_create_error_response(input_data, error_msg) ==
    [ session_success_rate    |-> <<"Error accessing memory: ">> \o error_msg,
      strategy_recommendation |-> "conservative_approach",
      confidence_modifier     |-> 60,
      similar_problems_found  |-> 0,
      memory_insights         |-> <<"Memory consultation failed: ">> \o error_msg
                                  \o <<". Using safe defaults.">>,
      recommended_approach    |-> <<"Using conservative approach due to memory access issues. Recommend step-by-step verification and careful execution.">> ]

\* MemoryAgent.consult
memory_consult(input_data, oracle) ==
    IF oracle.raises THEN memory_create_error_response(input_data, OracleErrorText)
    ELSE LET result_dict == parse_llm_response(oracle.text)
         IN  IF ~result_dict.ok
             THEN memory_create_error_response(input_data, result_dict.error)
             ELSE LET result == MemoryOutput(result_dict.value)
                  IN  IF result.ok THEN result.value
                      ELSE memory_create_error_response(input_data, result.error)

\* DecisionAgent._create_error_response
decision_create_error_response(input_data, error_msg) ==
    [ selected_method    |-> "conservative_detailed",
      final_confidence   |-> 50,
      show_working_steps |-> TRUE,
      verification_level |-> "high",
      reasoning          |-> <<"Decision system failed: ">> \o error_msg
                             \o <<". Using safe default approach with high verification to ensure accuracy despite system error.">>,
      execution_strategy |-> <<"Careful step-by-step approach due to decision error. Will use detailed breakdown and multiple verification methods to compensate for decision system failure.">>,
      risk_assessment    |-> "high" ]

\* decide with the method replaced by the one of the confidence band of the
\* prompt's guidelines
decision_decide_banded(input_data, oracle) ==
    IF oracle.raises THEN decision_create_error_response(input_data, OracleErrorText)
    ELSE LET result_dict == parse_llm_response(oracle.text)
         IN  IF ~result_dict.ok
             THEN decision_create_error_response(input_data, result_dict.error)
             ELSE LET result == DecisionOutput(result_dict.value)
                      c == result.value.final_confidence
                  IN  IF result.ok
                      THEN [result.value EXCEPT !.selected_method =
                              IF c >= 80 THEN "direct_calculation"
                              ELSE IF c >= 60 THEN "standard_with_check"
                              ELSE IF c >= 40 THEN "step_by_step_verification"
                              ELSE "conservative_detailed"]
                      ELSE decision_create_error_response(input_data, result.error)

\* DecisionAgent.decide
decision_decide(input_data, oracle) ==
    IF oracle.raises THEN decision_create_error_response(input_data, OracleErrorText)
    ELSE LET result_dict == parse_llm_response(oracle.text)
         IN  IF ~result_dict.ok
             THEN decision_create_error_response(input_data, result_dict.error)
             ELSE LET result == DecisionOutput(result_dict.value)
                  IN  IF result.ok THEN result.value
                      ELSE decision_create_error_response(input_data, result.error)

(***************************************************************************)
(* action.py                                                               *)
(***************************************************************************)
\* str(x) for a float x given in hundredths
FloatStr(h) ==
    LET a == IF h < 0 THEN 0 - h ELSE h
        frac == a % 100
        digits == IF frac % 10 = 0 THEN <<Digit(frac \div 10)>>
                  ELSE <<Digit(frac \div 10), Digit(frac % 10)>>
    IN  (IF h < 0 THEN <<"-">> ELSE << >>) \o DecStr(a \div 100) \o <<".">> \o digits

\* str(x) for a JSON value x
PyStr(j) ==
    CASE j.t = "str" -> j.v
      [] j.t = "int" -> (IF j.v < 0 THEN <<"-">> \o DecStr(0 - j.v) ELSE DecStr(j.v))
      [] j.t = "float" -> FloatStr(j.v)
      [] j.t = "null" -> <<"None">>
      [] OTHER -> <<"<repr of a list>">>

\* float(x) for a JSON value x, in hundredths: a number converts, a text
\* converts when it spells a number, anything else raises
PyFloat(j) ==
    CASE j.t = "float" -> Returned(j.v)
      [] j.t = "int" -> Returned(100 * j.v)
      [] j.t = "str" /\ j.v = <<"0", ".", "9">> -> Returned(90)
      [] OTHER -> Raised(<<"<ValueError or TypeError of float()>">>)

\* _validate_and_fix_result without the clamp of the confidence
validate_and_fix_result_no_clamp(parsed) ==
    IF parsed.kind # "object" THEN parsed
    ELSE LET d == parsed.value
             fixed(k) ==
                CASE k = "result" -> JStr(PyStr(d[k]))
                  [] k = "steps" ->
                       IF d[k].t # "list" THEN JList(<<JStr(PyStr(d[k]))>>)
                       ELSE JList([i \in 1..Len(d[k].v) |-> JStr(PyStr(d[k].v[i]))])
                  [] k = "confidence" ->
                       LET confidence == PyFloat(d[k])
                       IN  IF confidence.ok THEN JFloat(confidence.value)
                           ELSE JFloat(50)
                  [] k \in {"verification", "execution_notes"} -> JStr(PyStr(d[k]))
                  [] OTHER -> d[k]
         IN  [kind |-> "object", value |-> [k \in DOMAIN d |-> fixed(k)]]

\* _validate_and_fix_result that keeps, of a list of steps, the strings only
validate_and_fix_result_strings_only(parsed) ==
    IF parsed.kind # "object" THEN parsed
    ELSE LET d == parsed.value
             fixed(k) ==
                CASE k = "result" -> JStr(PyStr(d[k]))
                  [] k = "steps" ->
                       IF d[k].t # "list" THEN JList(<<JStr(PyStr(d[k]))>>)
                       ELSE JList(SelectSeq(d[k].v, LAMBDA step : step.t = "str"))
                  [] k = "confidence" ->
                       LET confidence == PyFloat(d[k])
                       IN  IF confidence.ok
                           THEN JFloat(Max(0, Min(100, confidence.value)))
                           ELSE JFloat(50)
                  [] k \in {"verification", "execution_notes"} -> JStr(PyStr(d[k]))
                  [] OTHER -> d[k]
         IN  [kind |-> "object", value |-> [k \in DOMAIN d |-> fixed(k)]]

\* ActionAgent._validate_and_fix_result
validate_and_fix_result(parsed) ==
    IF parsed.kind # "object" THEN parsed
    ELSE LET d == parsed.value
             fixed(k) ==
                CASE k = "result" -> JStr(PyStr(d[k]))
                  [] k = "steps" ->
                       IF d[k].t # "list" THEN JList(<<JStr(PyStr(d[k]))>>)
                       ELSE JList([i \in 1..Len(d[k].v) |-> JStr(PyStr(d[k].v[i]))])
                  [] k = "confidence" ->
                       LET confidence == PyFloat(d[k])
                       IN  IF confidence.ok
                           THEN JFloat(Max(0, Min(100, confidence.value)))
                           ELSE JFloat(50)
                  [] k \in {"verification", "execution_notes"} -> JStr(PyStr(d[k]))
                  [] OTHER -> d[k]
         IN  [kind |-> "object", value |-> [k \in DOMAIN d |-> fixed(k)]]

\* ActionAgent._create_error_response
action_create_error_response(input_data, error_msg) ==
    [ result          |-> ErrorPrefix \o error_msg,
      steps           |-> << <<"Action execution failed: ">> \o error_msg,
                             <<"Unable to complete mathematical calculation">>,
                             <<"System error prevented normal execution">> >>,
      confidence      |-> 0,
      verification    |-> <<"Unable to verify due to execution error">>,
      execution_notes |-> <<"Action execution system encountered an error: ">>
                          \o error_msg
                          \o <<". The mathematical calculation for '">>
                          \o input_data.expression
                          \o <<"' could not be completed. This may be due to system issues, invalid expression format, or other technical problems.">> ]

\* ActionAgent.execute
action_execute(input_data, oracle) ==
    IF oracle.raises THEN action_create_error_response(input_data, OracleErrorText)
    ELSE LET result_dict == parse_llm_response(oracle.text)
         IN  IF ~result_dict.ok
             THEN action_create_error_response(input_data, result_dict.error)
             ELSE LET result == ActionOutput(validate_and_fix_result(result_dict.value))
                  IN  IF result.ok THEN result.value
                      ELSE action_create_error_response(input_data, result.error)

(***************************************************************************)
(* models.py : the stage outputs as types, and the bundle.                 *)
(***************************************************************************)
IsPerceptionOutput(p) ==
    /\ DOMAIN p = PerceptionRequired \cup {"error_message"}
    /\ p.is_valid \in BOOLEAN
    /\ p.complexity \in {"simple", "medium", "complex"}
    /\ p.estimated_difficulty \in 1..10

IsMemoryOutput(m) ==
    /\ DOMAIN m = MemoryRequired
    /\ m.strategy_recommendation \in
         {"conservative_approach", "standard_verification", "confident_direct"}
    /\ m.confidence_modifier \in 50..100
    /\ m.similar_problems_found >= 0

IsDecisionOutput(d) ==
    /\ DOMAIN d = DecisionRequired
    /\ d.selected_method \in
         { "direct_calculation", "standard_with_check",
           "step_by_step_verification", "conservative_detailed" }
    /\ d.final_confidence \in 0..100
    /\ d.verification_level \in {"minimal", "standard", "high", "extra"}
    /\ d.risk_assessment \in {"low", "medium", "high"}

IsActionOutput(a) ==
    /\ DOMAIN a = ActionRequired
    /\ a.confidence \in 0..100

\* CognitiveAnalysisResult(expression=..., perception=..., ..., success=...)
CognitiveAnalysisResult(expression, perception, memory, decision, action, success) ==
    IF /\ IsPerceptionOutput(perception)
       /\ IsMemoryOutput(memory)
       /\ IsDecisionOutput(decision)
       /\ IsActionOutput(action)
    THEN Returned([ expression |-> expression,
                    perception |-> perception,
                    memory     |-> memory,
                    decision   |-> decision,
                    action     |-> action,
                    success    |-> success ])
    ELSE Raised(ValidationErrorText("CognitiveAnalysisResult"))

PerceptionInput(expression) == [expression |-> expression]

\* None where a str is expected
NotAString == <<"<None>">>

\* the validation of a field declared str
IsStr(value) == value # NotAString

MemoryInput(expression, perception_data, memory_summary) ==
    [ expression |-> expression, perception_data |-> perception_data,
      memory_summary |-> memory_summary ]

\* the Memory prompt with the store's summary of this moment in the place of
\* the summary the caller passed
create_memory_prompt_from_store(input_data) ==
    [ problem |-> input_data.expression,
      perception |-> input_data.perception_data,
      memory |-> get_memory_summary.summary ]

\* _create_memory_prompt: the parts of the prompt that vary, the problem, the
\* perception analysis and the text under AGENT'S MEMORY AND EXPERIENCE
create_memory_prompt(input_data) ==
    [ problem |-> input_data.expression,
      perception |-> input_data.perception_data,
      memory |-> input_data.memory_summary ]

DecisionInput(expression, perception_data, memory_data) ==
    [ expression |-> expression, perception_data |-> perception_data,
      memory_data |-> memory_data ]

ActionInput(expression, perception_data, decision_data) ==
    [ expression |-> expression, perception_data |-> perception_data,
      decision_data |-> decision_data ]

(***************************************************************************)
(* agent_clean.py : CognitiveAgent                                         *)
(***************************************************************************)
ErrorWord == <<"E", "r", "r", "o", "r">>

\* success taken from the confidence instead of the result text
is_successful_by_confidence(action_result) == action_result.confidence > 0

\* analyze: is_successful = not str(action_result.result).startswith("Error")
is_successful(action_result) == ~StartsWith(action_result.result, ErrorWord)

\* the short-circuit test made on the error message instead of is_valid
ShortCircuit_on_message(perception_result) == perception_result.error_message # None

\* analyze: if not perception_result.is_valid
ShortCircuit(perception_result) == ~perception_result.is_valid

\* the memory, decision and action values of _create_error_result
ErrorMemory(error_type) ==
    [ session_success_rate    |-> <<"Error - unable to access memory">>,
      strategy_recommendation |-> "conservative_approach",
      confidence_modifier     |-> 50,
      similar_problems_found  |-> 0,
      memory_insights         |-> <<"Memory consultation failed due to ">> \o error_type,
      recommended_approach    |-> <<"Conservative approach due to system error">> ]

ErrorDecision(error_type) ==
    [ selected_method    |-> "conservative_detailed",
      final_confidence   |-> 0,
      show_working_steps |-> TRUE,
      verification_level |-> "extra",
      reasoning          |-> <<"System error in ">> \o error_type
                             \o <<" - using safest approach">>,
      execution_strategy |-> <<"Conservative detailed approach due to system error">>,
      risk_assessment    |-> "high" ]

ErrorAction(error_type) ==
    [ result          |-> ErrorPrefix \o error_type,
      steps           |-> << <<"Analysis failed due to ">> \o error_type >>,
      confidence      |-> 0,
      verification    |-> <<"Cannot verify due to system error">>,
      execution_notes |-> <<"Execution failed due to ">> \o error_type ]

ErrorPerception(error_type) ==
    [ is_valid             |-> FALSE,
      operands             |-> << >>,
      operators            |-> << >>,
      complexity           |-> "simple",
      requires_order_ops   |-> FALSE,
      estimated_difficulty |-> 1,
      error_message        |-> Some(<<"Error in ">> \o error_type),
      perception_notes     |-> <<"Analysis failed due to ">> \o error_type ]

\* _create_error_result that fills in the action and leaves the memory and
\* the decision empty
create_error_result_partial(expression, perception, error_type) ==
    CognitiveAnalysisResult(
        expression,
        IF perception # None THEN perception[1] ELSE ErrorPerception(error_type),
        None, None, ErrorAction(error_type), FALSE)

\* _create_error_result with an action result that does not say "Error"
create_error_result_failed_text(expression, perception, error_type) ==
    CognitiveAnalysisResult(
        expression,
        IF perception # None THEN perception[1] ELSE ErrorPerception(error_type),
        ErrorMemory(error_type), ErrorDecision(error_type),
        [ErrorAction(error_type) EXCEPT !.result = <<"Failed: ">> \o error_type],
        FALSE)

\* CognitiveAgent._create_error_result; perception is an Optional
create_error_result(expression, perception, error_type) ==
    CognitiveAnalysisResult(
        expression,
        IF perception # None THEN perception[1] ELSE ErrorPerception(error_type),
        ErrorMemory(error_type), ErrorDecision(error_type), ErrorAction(error_type),
        FALSE)

\* the except clause that lets the exception go on to the caller
analyze_except_raise(expression, e) == Raised(e)

\* analyze: the except clause around the four phases
analyze_except(expression, e) ==
    create_error_result(expression, None, <<"system_error: ">> \o e)

\* the decision of quick_solve with the values of the Decision stage's
\* fallback
simple_decision_cautious ==
    [ selected_method    |-> "conservative_detailed",
      final_confidence   |-> 50,
      show_working_steps |-> TRUE,
      verification_level |-> "high",
      reasoning          |-> <<"Quick solve mode - using direct calculation">>,
      execution_strategy |-> <<"Fast execution with basic verification">>,
      risk_assessment    |-> "medium" ]

\* quick_solve: the decision handed to the Action stage
simple_decision ==
    [ selected_method    |-> "direct_calculation",
      final_confidence   |-> 70,
      show_working_steps |-> FALSE,
      verification_level |-> "minimal",
      reasoning          |-> <<"Quick solve mode - using direct calculation">>,
      execution_strategy |-> <<"Fast execution with basic verification">>,
      risk_assessment    |-> "medium" ]

\* quick_solve answering an invalid expression with the value of its except
\* clause
quick_invalid_result_as_failure(perception_result) ==
    [ result          |-> ErrorPrefix \o OptStr(perception_result.error_message),
      steps           |-> << <<"Quick solve failed">> >>,
      confidence      |-> 0,
      verification    |-> <<"Cannot verify due to error">>,
      execution_notes |-> <<"Quick solve encountered error: ">>
                          \o OptStr(perception_result.error_message) ]

\* quick_solve: the ActionOutput returned for an invalid expression
quick_invalid_result(perception_result) ==
    [ result          |-> ErrorPrefix \o OptStr(perception_result.error_message),
      steps           |-> << <<"Invalid expression">> >>,
      confidence      |-> 0,
      verification    |-> <<"Cannot verify invalid expression">>,
      execution_notes |-> <<"Expression failed perception validation">> ]

(***************************************************************************)
(* CognitiveAgent runs (agent_clean.py).                                   *)
(***************************************************************************)
Runs == {"r1", "r2"}

\* the run of the specification that follows one run alone
SingleRun == {"r1"}

Stages == {"perception", "memory", "decision", "action"}

\* a run before analyze or quick_solve is called.  pc is the oracle call the
\* run is suspended on (PERCEIVE, CONSULT, DECIDE, ACT), "returned" once the
\* entry point has returned, "raised" if it let an exception out.  order
\* lists the stages in the order their oracle calls were made; last_answer
\* is the stage and the outcome of the oracle call that ended last.
IdleRun ==
    [ pc                |-> "idle",
      entry             |-> "none",
      expression        |-> << >>,
      memory_summary    |-> << >>,
      memory_prompt     |-> None,
      perception_result |-> None,
      memory_result     |-> None,
      decision_result   |-> None,
      action_result     |-> None,
      oracle_calls      |-> [st \in Stages |-> 0],
      order             |-> << >>,
      last_answer       |-> None,
      returned          |-> None ]

\* the run r after its entry point returns what the try block or, failing
\* that, the except clause produced
Finish(r, outcome, handler) ==
    IF outcome.ok THEN [r EXCEPT !.pc = "returned", !.returned = Some(outcome.value)]
    ELSE IF handler.ok
         THEN [r EXCEPT !.pc = "returned", !.returned = Some(handler.value)]
         ELSE [r EXCEPT !.pc = "raised"]

\* print(f"... {text}") raises UnicodeEncodeError: sys.stdout encodes what it
\* is given, and a lone surrogate cannot be encoded
print_raises(text) == Contains(text, "U+D800")

\* the run suspended on the oracle call of the next stage
CallOracle(r, pc, stage) ==
    [r EXCEPT !.pc = pc, !.oracle_calls[stage] = @ + 1, !.order = Append(@, stage)]

\* response = await asyncio.to_thread(self.model.generate_content, prompt)
Answer(stage, oracle) == Some([stage |-> stage, outcome |-> oracle])

\* analyze(expression, memory_summary), up to the oracle call of Perception.
\* The banner, which prints the expression, comes before the try block.
analyze_start(id, expression, memory_summary) ==
    /\ run[id].pc = "idle"
    /\ LET called == [run[id] EXCEPT !.entry = "analyze",
                                     !.expression = expression,
                                     !.memory_summary = memory_summary]
       IN  run' = [run EXCEPT ![id] =
                     IF print_raises(expression)
                     THEN [called EXCEPT !.pc = "raised"]
                     ELSE CallOracle(called, "PERCEIVE", "perception")]
    /\ UNCHANGED storeVars

\* analyze whose oracle calls are made on the event loop's own thread: a run
\* is resumed only when no other run has an oracle call in flight
analyze_perceived_serialized(id, oracle) ==
    /\ \A other \in Runs \ {id} :
          run[other].pc \notin {"PERCEIVE", "CONSULT", "DECIDE", "ACT"}
    /\ run[id].pc = "PERCEIVE"
    /\ run[id].entry = "analyze"
    /\ LET r == run[id]
           perception_result ==
               perception_analyze(PerceptionInput(r.expression), oracle)
           seen == [r EXCEPT !.perception_result = Some(perception_result),
                             !.last_answer = Answer("perception", oracle)]
       IN  run' = [run EXCEPT ![id] =
                     IF ShortCircuit(perception_result)
                     THEN Finish(seen,
                                 create_error_result(r.expression,
                                                     Some(perception_result),
                                                     <<"perception_error">>),
                                 analyze_except(r.expression,
                                     ValidationErrorText("CognitiveAnalysisResult")))
                     ELSE IF ~IsStr(r.memory_summary)
                     THEN Finish(seen,
                                 Raised(ValidationErrorText("MemoryInput")),
                                 analyze_except(r.expression,
                                                ValidationErrorText("MemoryInput")))
                     ELSE CallOracle([seen EXCEPT !.memory_prompt =
                                         Some(create_memory_prompt(
                                             MemoryInput(r.expression,
                                                         perception_result,
                                                         r.memory_summary)))],
                                     "CONSULT", "memory")]
    /\ UNCHANGED storeVars

\* analyze: Perception's oracle call ends; short-circuit, or build the input
\* of Memory (MemoryInput validates memory_summary) and go on to Memory
analyze_perceived(id, oracle) ==
    /\ run[id].pc = "PERCEIVE"
    /\ run[id].entry = "analyze"
    /\ LET r == run[id]
           perception_result ==
               perception_analyze(PerceptionInput(r.expression), oracle)
           seen == [r EXCEPT !.perception_result = Some(perception_result),
                             !.last_answer = Answer("perception", oracle)]
       IN  run' = [run EXCEPT ![id] =
                     IF ShortCircuit(perception_result)
                     THEN Finish(seen,
                                 create_error_result(r.expression,
                                                     Some(perception_result),
                                                     <<"perception_error">>),
                                 analyze_except(r.expression,
                                     ValidationErrorText("CognitiveAnalysisResult")))
                     ELSE IF ~IsStr(r.memory_summary)
                     THEN Finish(seen,
                                 Raised(ValidationErrorText("MemoryInput")),
                                 analyze_except(r.expression,
                                                ValidationErrorText("MemoryInput")))
                     ELSE CallOracle([seen EXCEPT !.memory_prompt =
                                         Some(create_memory_prompt(
                                             MemoryInput(r.expression,
                                                         perception_result,
                                                         r.memory_summary)))],
                                     "CONSULT", "memory")]
    /\ UNCHANGED storeVars

\* analyze that asks the Memory oracle a second time when the first answer
\* was unusable
analyze_consulted_retry(id, oracle) ==
    /\ run[id].pc = "CONSULT"
    /\ LET r == run[id]
           memory_result ==
               memory_consult(MemoryInput(r.expression, r.perception_result[1],
                                          r.memory_summary), oracle)
           answered == [r EXCEPT !.last_answer = Answer("memory", oracle)]
       IN  run' = [run EXCEPT ![id] =
                     IF /\ memory_result.similar_problems_found = 0
                        /\ memory_result.confidence_modifier = 60
                        /\ r.oracle_calls["memory"] < 2
                     THEN CallOracle(answered, "CONSULT", "memory")
                     ELSE CallOracle([answered EXCEPT
                                         !.memory_result = Some(memory_result)],
                                     "DECIDE", "decision")]
    /\ UNCHANGED storeVars

\* analyze: Memory's oracle call ends; go on to Decision
analyze_consulted(id, oracle) ==
    /\ run[id].pc = "CONSULT"
    /\ LET r == run[id]
           memory_result ==
               memory_consult(MemoryInput(r.expression, r.perception_result[1],
                                          r.memory_summary), oracle)
       IN  run' = [run EXCEPT ![id] =
                     CallOracle([r EXCEPT !.memory_result = Some(memory_result),
                                          !.last_answer = Answer("memory", oracle)],
                                "DECIDE", "decision")]
    /\ UNCHANGED storeVars

\* analyze: Decision's oracle call ends; go on to Action
analyze_decided(id, oracle) ==
    /\ run[id].pc = "DECIDE"
    /\ LET r == run[id]
           decision_result ==
               decision_decide(DecisionInput(r.expression, r.perception_result[1],
                                             r.memory_result[1]), oracle)
       IN  run' = [run EXCEPT ![id] =
                     CallOracle([r EXCEPT !.decision_result = Some(decision_result),
                                          !.last_answer = Answer("decision", oracle)],
                                "ACT", "action")]
    /\ UNCHANGED storeVars

\* analyze: Action's oracle call ends; the bundle is assembled and returned
analyze_acted(id, oracle) ==
    /\ run[id].pc = "ACT"
    /\ run[id].entry = "analyze"
    /\ LET r == run[id]
           action_result ==
               action_execute(ActionInput(r.expression, r.perception_result[1],
                                          r.decision_result[1]), oracle)
           cognitive_result ==
               CognitiveAnalysisResult(r.expression, r.perception_result[1],
                                       r.memory_result[1], r.decision_result[1],
                                       action_result, is_successful(action_result))
       IN  run' = [run EXCEPT ![id] =
                     Finish([r EXCEPT !.action_result = Some(action_result),
                                      !.last_answer = Answer("action", oracle)],
                            cognitive_result,
                            analyze_except(r.expression, cognitive_result.error))]
    /\ UNCHANGED storeVars

\* quick_solve(expression), up to the oracle call of Perception.  The line
\* that prints the expression comes before the try block.
quick_solve_start(id, expression) ==
    /\ run[id].pc = "idle"
    /\ LET called == [run[id] EXCEPT !.entry = "quick_solve",
                                     !.expression = expression]
       IN  run' = [run EXCEPT ![id] =
                     IF print_raises(expression)
                     THEN [called EXCEPT !.pc = "raised"]
                     ELSE CallOracle(called, "PERCEIVE", "perception")]
    /\ UNCHANGED storeVars

\* quick_solve: Perception's oracle call ends; return the error value or go
\* on to Action with simple_decision
quick_solve_perceived(id, oracle) ==
    /\ run[id].pc = "PERCEIVE"
    /\ run[id].entry = "quick_solve"
    /\ LET r == run[id]
           perception_result ==
               perception_analyze(PerceptionInput(r.expression), oracle)
           seen == [r EXCEPT !.perception_result = Some(perception_result),
                             !.last_answer = Answer("perception", oracle)]
       IN  run' = [run EXCEPT ![id] =
                     IF ~perception_result.is_valid
                     THEN [seen EXCEPT !.pc = "returned",
                                       !.returned =
                                           Some(quick_invalid_result(perception_result))]
                     ELSE CallOracle([seen EXCEPT !.decision_result =
                                                      Some(simple_decision)],
                                     "ACT", "action")]
    /\ UNCHANGED storeVars

\* quick_solve: Action's oracle call ends; its output is returned
quick_solve_acted(id, oracle) ==
    /\ run[id].pc = "ACT"
    /\ run[id].entry = "quick_solve"
    /\ LET r == run[id]
           action_result ==
               action_execute(ActionInput(r.expression, r.perception_result[1],
                                          r.decision_result[1]), oracle)
       IN  run' = [run EXCEPT ![id] =
                     [r EXCEPT !.action_result = Some(action_result),
                               !.last_answer = Answer("action", oracle),
                               !.pc = "returned",
                               !.returned = Some(action_result)]]
    /\ UNCHANGED storeVars

(***************************************************************************)
(* client.py : solve_with_complete_cognitive_analysis.  The coroutine is   *)
(* suspended at each tool call until the server's reply and, inside        *)
(* analyze, at each oracle call.  tool_calls[id].flow is its position:     *)
(* "summary_call" (get_memory_summary in flight), "analyze" (the summary   *)
(* is read; analyze is to be called, runs or has ended), "store_call"      *)
(* (store_result in flight or answered), "status_call", "status_read",     *)
(* "history_call", and at the end "done" (the bundle returned), "failed"   *)
(* (None returned) or "cancelled".                                         *)
(***************************************************************************)
\* memory_result = await self.session.call_tool("get_memory_summary")
client_solve(id, expression) ==
    /\ tool_calls[id].flow = "none"
    /\ run[id].pc = "idle"
    /\ tool_calls' = [tool_calls EXCEPT ![id].flow = "summary_call",
                                        ![id].expression = expression]
    /\ UNCHANGED <<session_history, memory_status, now, response, run, caller>>

\* call_tool("get_memory_summary") serving the call of run id; the client
\* takes memory_data.get("summary", ...) from the reply
call_tool_get_memory_summary(id) ==
    /\ tool_calls[id].flow = "summary_call"
    /\ response' = [tool |-> "get_memory_summary", body |-> get_memory_summary]
    /\ tool_calls' = [tool_calls EXCEPT
                         ![id].flow = "analyze",
                         ![id].memory_summary = Some(get_memory_summary.summary)]
    /\ UNCHANGED <<session_history, memory_status, now, run, caller>>

\* cognitive_result = await self.cognitive_agent.analyze(expression,
\* memory_summary)
client_analyze(id) ==
    /\ tool_calls[id].flow = "analyze"
    /\ analyze_start(id, tool_calls[id].expression, tool_calls[id].memory_summary[1])

\* the coroutine of the run is cancelled while it waits for an oracle call:
\* CancelledError is not an Exception, so it passes the except clauses of the
\* stage, of analyze and of the client
client_cancel(id) ==
    /\ tool_calls[id].flow = "analyze"
    /\ run[id].entry = "analyze"
    /\ run[id].pc \in {"PERCEIVE", "CONSULT", "DECIDE", "ACT"}
    /\ run' = [run EXCEPT ![id].pc = "cancelled"]
    /\ tool_calls' = [tool_calls EXCEPT ![id].flow = "cancelled"]
    /\ UNCHANGED <<session_history, memory_status, now, response, caller>>

\* the arguments with the Decision's confidence in the place of the Action's
StoreArguments_final_confidence(cognitive_result) ==
    StoreResultRequest(cognitive_result.expression,
                       cognitive_result.action.result,
                       cognitive_result.success,
                       Some(<<cognitive_result.decision.selected_method>>),
                       Some(cognitive_result.decision.final_confidence))

\* the arguments of _store_result's call
StoreArguments(cognitive_result) ==
    StoreResultRequest(cognitive_result.expression,
                       cognitive_result.action.result,
                       cognitive_result.success,
                       Some(<<cognitive_result.decision.selected_method>>),
                       Some(cognitive_result.action.confidence))

\* a client that stores a record in a finally clause, whether analyze
\* returned a bundle or not
client_store_cognitive_result_finally(id) ==
    /\ tool_calls[id].flow \in {"analyze", "cancelled"}
    /\ run[id].pc \in {"returned", "raised", "cancelled"}
    /\ tool_calls[id].replies = << >>
    /\ tool_calls' =
          [tool_calls EXCEPT
              ![id].pending =
                  Some(IF run[id].pc = "returned"
                       THEN StoreArguments(run[id].returned[1])
                       ELSE StoreResultRequest(tool_calls[id].expression,
                                               ErrorPrefix \o <<"no result">>,
                                               FALSE, None, None)),
              ![id].flow = IF @ = "cancelled" THEN @ ELSE "store_call"]
    /\ UNCHANGED <<session_history, memory_status, now, response, run, caller>>

\* await self._store_result(cognitive_result), up to its tool call
client_store_cognitive_result(id) ==
    /\ tool_calls[id].flow = "analyze"
    /\ run[id].pc = "returned"
    /\ tool_calls' = [tool_calls EXCEPT
                         ![id].pending = Some(StoreArguments(run[id].returned[1])),
                         ![id].flow = "store_call"]
    /\ UNCHANGED <<session_history, memory_status, now, response, run, caller>>

\* the except clause of solve_with_complete_cognitive_analysis: analyze
\* raised, None is returned
client_analysis_failed(id) ==
    /\ tool_calls[id].flow = "analyze"
    /\ run[id].pc = "raised"
    /\ tool_calls' = [tool_calls EXCEPT ![id].flow = "failed"]
    /\ UNCHANGED <<session_history, memory_status, now, response, run, caller>>

\* await self._show_memory_impact(), up to its first tool call
client_show_memory_impact(id) ==
    /\ tool_calls[id].flow = "store_call"
    /\ tool_calls[id].pending = None
    /\ tool_calls' = [tool_calls EXCEPT ![id].flow = "status_call"]
    /\ UNCHANGED <<session_history, memory_status, now, response, run, caller>>

\* call_tool("get_memory_status") serving the call of run id
call_tool_get_memory_status(id) ==
    /\ tool_calls[id].flow = "status_call"
    /\ response' = [tool |-> "get_memory_status", body |-> get_memory_status]
    /\ tool_calls' = [tool_calls EXCEPT ![id].flow = "status_read"]
    /\ UNCHANGED <<session_history, memory_status, now, run, caller>>

\* _show_memory_impact: the call of get_recent_history with limit 3
client_get_recent_history(id) ==
    /\ tool_calls[id].flow = "status_read"
    /\ tool_calls' = [tool_calls EXCEPT ![id].flow = "history_call"]
    /\ UNCHANGED <<session_history, memory_status, now, response, run, caller>>

\* call_tool("get_recent_history", {"limit": 3}) serving the call of run id;
\* with the reply the client prints the trend and returns the bundle
call_tool_get_recent_history(id) ==
    /\ tool_calls[id].flow = "history_call"
    /\ response' = [ tool      |-> "get_recent_history",
                     arguments |-> [limit |-> Some(3)],
                     body      |-> HistoryData(session_history, [limit |-> Some(3)]) ]
    /\ tool_calls' = [tool_calls EXCEPT ![id].flow = "done"]
    /\ UNCHANGED <<session_history, memory_status, now, run, caller>>

(***************************************************************************)
(* Inputs of the agent.                                                    *)
(***************************************************************************)
Expressions ==
    { <<"5", " ", "+", " ", "3">>,
      <<"h", "e", "l", "l", "o">>,
      <<"5", " ", "+", " ", "U+D800">> }

Summaries == { FreshStartText }

\* the raw texts an oracle may wrap a JSON document in
RawTexts(doc) ==
    { <<doc>>,
      <<" ", doc, "\n">>,
      FenceJson \o <<"\n", doc, "\n">> \o Fence,
      Fence \o <<doc>> \o Fence \o <<"\n">>,
      FenceJson \o <<"\n", doc>>,
      <<"Here is the JSON you asked for: ", doc>> }

\* the outcomes of one oracle call: it raises, or returns a text
OracleOutcomes(docs) ==
    { [raises |-> TRUE, text |-> << >>] }
    \cup { [raises |-> FALSE, text |-> t] :
             t \in UNION {RawTexts(doc) : doc \in docs}
                     \cup { << >>, <<"I cannot help with that.">> } }

(***************************************************************************)
(* mcp_server.py : call_tool, its validation of store_result's arguments   *)
(* and its except clause.  An arguments dict is a record of JSON values,   *)
(* JMissing standing for a key the dict does not have.                     *)
(***************************************************************************)
JBool(v) == [t |-> "bool", v |-> <<v>>]
JMissing == [t |-> "missing", v |-> << >>]

\* the names call_tool serves
ToolNames ==
    { "store_result", "get_memory_status", "get_memory_summary", "reset_memory",
      "get_recent_history", "analyze_performance_trends" }

\* StoreResultRequest(**arguments): problem and result are str and success is
\* bool, all three required; strategy_used and confidence are optional and
\* may be null
StoreResultRequest_validate(arguments) ==
    IF /\ arguments.problem.t = "str"
       /\ arguments.result.t = "str"
       /\ arguments.success.t = "bool"
       /\ arguments.strategy_used.t \in {"str", "null", "missing"}
       /\ arguments.confidence.t \in {"float", "null", "missing"}
    THEN Returned(StoreResultRequest(
                      arguments.problem.v, arguments.result.v, arguments.success.v[1],
                      IF arguments.strategy_used.t = "str"
                      THEN Some(arguments.strategy_used.v) ELSE None,
                      IF arguments.confidence.t = "float"
                      THEN Some(arguments.confidence.v) ELSE None))
    ELSE Raised(ValidationErrorText("StoreResultRequest"))

\* the error_result of call_tool's except clause
error_result(error, name, arguments, error_type) ==
    [ error |-> error, tool |-> name, arguments |-> arguments,
      error_type |-> error_type ]

\* call_tool that counts a store_result call before it validates the arguments
call_tool_count_first(name, arguments) ==
    /\ name \notin ToolNames \ {"store_result"}
    /\ LET request == StoreResultRequest_validate(arguments)
       IN  IF name = "store_result" /\ request.ok
           THEN now < MaxStores /\ memory_store_store_result(request.value)
           ELSE /\ response' =
                     [ tool |-> name,
                       body |-> IF name = "store_result"
                                THEN error_result(request.error, name, arguments,
                                                  "ValidationError")
                                ELSE error_result(<<"Unknown tool: ", name>>, name,
                                                  arguments, "ValueError") ]
                /\ memory_status' =
                     IF name = "store_result"
                     THEN [memory_status EXCEPT !.total_problems = @ + 1]
                     ELSE memory_status
                /\ UNCHANGED <<session_history, now>>
    /\ UNCHANGED <<run, caller, tool_calls>>

\* call_tool(name, arguments) for store_result and for a name of no tool:
\* store_result validates the arguments and stores the request; a
\* ValidationError of the validation and the ValueError("Unknown tool: ...")
\* of the last branch are caught and returned as the error_result
call_tool(name, arguments) ==
    /\ name \notin ToolNames \ {"store_result"}
    /\ LET request == StoreResultRequest_validate(arguments)
       IN  IF name = "store_result" /\ request.ok
           THEN now < MaxStores /\ memory_store_store_result(request.value)
           ELSE /\ response' =
                     [ tool |-> name,
                       body |-> IF name = "store_result"
                                THEN error_result(request.error, name, arguments,
                                                  "ValidationError")
                                ELSE error_result(<<"Unknown tool: ", name>>, name,
                                                  arguments, "ValueError") ]
                /\ UNCHANGED <<session_history, memory_status, now>>
    /\ UNCHANGED <<run, caller, tool_calls>>

\* arguments of store_result calls: complete ones, one of them without the
\* optional keys, and ones with a required key absent, null or a list
FullArguments ==
    [ problem |-> JStr(<<"2", "*", "3">>), result |-> JStr(<<"6">>),
      success |-> JBool(TRUE), strategy_used |-> JStr(<<"direct_calculation">>),
      confidence |-> JFloat(90) ]

CompleteArguments ==
    { FullArguments,
      [ problem |-> JStr(<<"1", "/", "0">>),
        result |-> JStr(<<"E", "r", "r", "o", "r", ":", " ", "Division by zero">>),
        success |-> JBool(FALSE), strategy_used |-> JNull, confidence |-> JNull ],
      [ problem |-> JStr(<<"5", " ", "+", " ", "3">>), result |-> JStr(<<"8">>),
        success |-> JBool(TRUE), strategy_used |-> JMissing,
        confidence |-> JMissing ] }

WrongValues == { JMissing, JNull, JList(<< >>) }

CallArguments ==
    CompleteArguments
    \cup { [FullArguments EXCEPT ![key] = wrong] :
             key \in {"problem", "result", "success"}, wrong \in WrongValues }

\* names that call_tool is called with: store_result and two names of no tool
CallNames == { "store_result", "solve", "store" }

(***************************************************************************)
(* Specifications.                                                         *)
(***************************************************************************)
Init ==
    /\ session_history = << >>
    /\ memory_status = MemoryStatus
    /\ now = 0
    /\ response = [tool |-> "none", body |-> << >>]
    /\ run = [r \in Runs |-> IdleRun]
    /\ caller = NoCaller
    /\ tool_calls = [r \in Runs |-> NoCalls]

\* the store under varied requests, short histories
StoreNext ==
    \/ \E request \in Requests : now < MaxStores /\ store_result(request)
    \/ reset_memory
    \/ call_get_memory_status
    \/ call_get_memory_summary

StoreSpec == Init /\ [][StoreNext]_vars

\* the store under two requests, histories longer than the recent window
LongNext ==
    \/ \E request \in LongRequests : now < MaxLongStores /\ store_result(request)
    \/ reset_memory

LongSpec == Init /\ [][LongNext]_vars

\* the store under store_result calls with arguments of every kind, calls of
\* unknown tools, and resets
ErrorNext ==
    \/ \E name \in CallNames, arguments \in CallArguments : call_tool(name, arguments)
    \/ reset_memory

ErrorSpec == Init /\ [][ErrorNext]_vars

\* the arguments of the get_recent_history calls: no limit, and limits below
\* and above the number of records
HistoryArguments ==
    { [limit |-> None], [limit |-> Some(0)], [limit |-> Some(1)],
      [limit |-> Some(3)] }

\* the store with its analysis tools
ToolNext ==
    \/ \E request \in LongRequests : now < MaxToolStores /\ store_result(request)
    \/ reset_memory
    \/ call_analyze_performance_trends
    \/ \E arguments \in HistoryArguments : call_get_recent_history(arguments)

ToolSpec == Init /\ [][ToolNext]_vars

\* the store with all four tools that read it
ReadNext ==
    \/ ToolNext
    \/ call_get_memory_status
    \/ call_get_memory_summary

ReadSpec == Init /\ [][ReadNext]_vars

\* the pipeline: single runs of analyze and quick_solve under every oracle
\* behaviour
AgentNext ==
    \E id \in SingleRun :
        \/ \E expression \in Expressions, memory_summary \in Summaries :
              analyze_start(id, expression, memory_summary)
        \/ \E oracle \in OracleOutcomes(PerceptionDocs) : analyze_perceived(id, oracle)
        \/ \E oracle \in OracleOutcomes(MemoryDocs) : analyze_consulted(id, oracle)
        \/ \E oracle \in OracleOutcomes(DecisionDocs) : analyze_decided(id, oracle)
        \/ \E oracle \in OracleOutcomes(ActionDocs) : analyze_acted(id, oracle)
        \/ \E expression \in Expressions : quick_solve_start(id, expression)
        \/ \E oracle \in OracleOutcomes(PerceptionDocs) : quick_solve_perceived(id, oracle)
        \/ \E oracle \in OracleOutcomes(ActionDocs) : quick_solve_acted(id, oracle)

AgentSpec == Init /\ [][AgentNext]_vars

\* the pipeline where every oracle call in flight ends (it returns or raises)
\* and the coroutine is resumed
AgentLiveSpec == Init /\ [][AgentNext]_vars /\ WF_vars(AgentNext)

\* analyze called with a memory_summary that may not be a str: the signature
\* declares the type and nothing enforces it before MemoryInput is built
UntypedSummaries == Summaries \cup {NotAString}

UntypedNext ==
    \E id \in SingleRun :
        \/ \E expression \in Expressions, memory_summary \in UntypedSummaries :
              analyze_start(id, expression, memory_summary)
        \/ \E oracle \in OracleOutcomes(PerceptionDocs) : analyze_perceived(id, oracle)
        \/ \E oracle \in OracleOutcomes(MemoryDocs) : analyze_consulted(id, oracle)
        \/ \E oracle \in OracleOutcomes(DecisionDocs) : analyze_decided(id, oracle)
        \/ \E oracle \in OracleOutcomes(ActionDocs) : analyze_acted(id, oracle)

UntypedSpec == Init /\ [][UntypedNext]_vars

\* an oracle that raises or answers one of docs, bare
SomeOutcomes(docs) ==
    { [raises |-> TRUE, text |-> << >>] }
    \cup { [raises |-> FALSE, text |-> <<doc>>] : doc \in docs }

\* the pipeline: two runs whose steps interleave at the oracle calls, the
\* only places where a run is suspended
InterleavedNext ==
    \E id \in Runs :
        \/ \E expression \in Expressions, memory_summary \in Summaries :
              analyze_start(id, expression, memory_summary)
        \/ \E oracle \in SomeOutcomes({"json:perception_valid", "json:perception_invalid"}) :
              analyze_perceived(id, oracle)
        \/ \E oracle \in SomeOutcomes({"json:memory_standard", "json:memory_low_modifier"}) :
              analyze_consulted(id, oracle)
        \/ \E oracle \in SomeOutcomes({"json:decision_direct", "json:decision_bad_method"}) :
              analyze_decided(id, oracle)
        \/ \E oracle \in SomeOutcomes({"json:action_8", "json:action_error"}) :
              analyze_acted(id, oracle)
        \/ \E expression \in Expressions : quick_solve_start(id, expression)
        \/ \E oracle \in SomeOutcomes({"json:perception_valid", "json:perception_invalid"}) :
              quick_solve_perceived(id, oracle)
        \/ \E oracle \in SomeOutcomes({"json:action_8", "json:action_error"}) :
              quick_solve_acted(id, oracle)

InterleavedSpec == Init /\ [][InterleavedNext]_vars

\* the store with a caller in its process that holds what get_memory_status
\* returned
AliasNext ==
    \/ \E request \in LongRequests : now < MaxStores /\ store_result(request)
    \/ reset_memory
    \/ caller_get_memory_status

AliasSpec == Init /\ [][AliasNext]_vars

\* the store under the store_result calls of two client runs
ConcurrentNext ==
    \E id \in Runs :
        \/ \E request \in LongRequests : client_store_result(id, request)
        \/ call_tool_store_result(id)

ConcurrentSpec == Init /\ [][ConcurrentNext]_vars

\* two runs of solve_with_complete_cognitive_analysis against one store,
\* either of which may be cancelled while it waits for an oracle call
ClientNext ==
    \E id \in Runs :
        \/ \E expression \in Expressions : client_solve(id, expression)
        \/ call_tool_get_memory_summary(id)
        \/ client_analyze(id)
        \/ \E oracle \in SomeOutcomes({"json:perception_valid", "json:perception_invalid"}) :
              analyze_perceived(id, oracle)
        \/ \E oracle \in SomeOutcomes({"json:memory_standard"}) :
              analyze_consulted(id, oracle)
        \/ \E oracle \in SomeOutcomes({"json:decision_direct"}) :
              analyze_decided(id, oracle)
        \/ \E oracle \in SomeOutcomes({"json:action_8", "json:action_error"}) :
              analyze_acted(id, oracle)
        \/ client_cancel(id)
        \/ client_analysis_failed(id)
        \/ client_store_cognitive_result(id)
        \/ call_tool_store_result(id)
        \/ client_show_memory_impact(id)
        \/ call_tool_get_memory_status(id)
        \/ client_get_recent_history(id)
        \/ call_tool_get_recent_history(id)

ClientSpec == Init /\ [][ClientNext]_vars

\* an oracle that answers one of docs, bare
Answers(docs) == { [raises |-> FALSE, text |-> <<doc>>] : doc \in docs }

\* a step of run id of the client that is not its cancellation
ClientStep(id) ==
    \/ \E expression \in {e \in Expressions : e[1] = "5"} : client_solve(id, expression)
    \/ call_tool_get_memory_summary(id)
    \/ client_analyze(id)
    \/ \E oracle \in Answers({"json:perception_valid", "json:perception_invalid"}) :
          analyze_perceived(id, oracle)
    \/ \E oracle \in Answers({"json:memory_standard"}) :
          analyze_consulted(id, oracle)
    \/ \E oracle \in Answers({"json:decision_direct"}) :
          analyze_decided(id, oracle)
    \/ \E oracle \in SomeOutcomes({"json:action_8"}) :
          analyze_acted(id, oracle)
    \/ client_analysis_failed(id)
    \/ client_store_cognitive_result(id)
    \/ call_tool_store_result(id)
    \/ client_show_memory_impact(id)
    \/ call_tool_get_memory_status(id)
    \/ client_get_recent_history(id)
    \/ call_tool_get_recent_history(id)

ClientLiveNext ==
    \E id \in Runs :
        \/ ClientStep(id)
        \/ client_cancel(id)

\* the client's runs where a coroutine that holds the bundle of analyze goes
\* on to _store_result, and the server answers the store_result call
ClientLiveSpec ==
    /\ Init
    /\ [][ClientLiveNext]_vars
    /\ \A id \in Runs : /\ WF_vars(client_store_cognitive_result(id))
                        /\ WF_vars(call_tool_store_result(id))

\* the client's runs against a store that may also be reset while they are
\* under way
FrameNext ==
    \/ ClientNext
    \/ reset_memory
    \/ \E id \in Runs :
          \/ \E expression \in Expressions :
                tool_calls[id].flow = "none" /\ quick_solve_start(id, expression)
          \/ \E oracle \in SomeOutcomes({"json:perception_valid", "json:perception_invalid"}) :
                quick_solve_perceived(id, oracle)
          \/ \E oracle \in SomeOutcomes({"json:action_8"}) :
                quick_solve_acted(id, oracle)

FrameSpec == Init /\ [][FrameNext]_vars

(***************************************************************************)
(* Properties of the Session Memory Store.                                 *)
(***************************************************************************)
Abs(x) == IF x < 0 THEN 0 - x ELSE x

SuccessIndices(history) == {i \in 1..Len(history) : history[i].success}

\* a step that stores one record
StoreStep == now' = now + 1

\* the problem text of the record a StoreStep stores
StoredProblem == session_history'[Len(session_history')].problem

\* C1: after any sequence of store_result and reset_memory calls,
\* success_count + error_count = total_problems.
C1_CountersAddUp ==
    memory_status.success_count + memory_status.error_count
        = memory_status.total_problems

\* a store that was reset once and then took a success and a failure
C1_Witness ==
    /\ memory_status.success_count = 1
    /\ memory_status.error_count = 1
    /\ now > memory_status.total_problems

C2_Counts ==
    LET N == Len(session_history)
        S == Cardinality(SuccessIndices(session_history))
    IN  /\ memory_status.total_problems = N
        /\ memory_status.success_count = S
        /\ memory_status.error_count = N - S
        /\ response.tool = "store_result"
               => response.body.total_problems = memory_status.total_problems

C2_Step ==
    StoreStep =>
        /\ memory_status'.total_problems = memory_status.total_problems + 1
        /\ response'.tool = "store_result"
        /\ response'.body.total_problems = memory_status'.total_problems
        /\ IF response'.body.success
           THEN /\ memory_status'.success_count = memory_status.success_count + 1
                /\ memory_status'.error_count = memory_status.error_count
           ELSE /\ memory_status'.success_count = memory_status.success_count
                /\ memory_status'.error_count = memory_status.error_count + 1

\* C2: N records stored since the last reset, S of them successes, give
\* total_problems = N, success_count = S, error_count = N - S; each store_result
\* adds 1 to total_problems and to the counter its success flag selects, and
\* answers with the new total.
C2_Counting == [](C2_Counts) /\ [][C2_Step]_vars

\* two successes and a failure stored
C2_Witness ==
    /\ Len(session_history) = 3
    /\ memory_status.success_count = 2
    /\ memory_status.error_count = 1
    /\ response.tool = "store_result"

\* C3: success_rate is 100 * success_count / total_problems to the nearest
\* tenth, written with one decimal and "%"; it is "0%" only while
\* total_problems = 0.
C3_SuccessRate ==
    LET N == memory_status.total_problems
        S == memory_status.success_count
        q == (1000 * S) \div N
    IN  IF N = 0
        THEN memory_status.success_rate = <<"0", "%">>
        ELSE /\ memory_status.success_rate # <<"0", "%">>
             /\ \E t \in {q, q + 1} :
                   /\ 2 * Abs(t * N - 1000 * S) <= N
                   /\ memory_status.success_rate
                        = DecStr(t \div 10) \o <<".", Digit(t % 10), "%">>
             /\ S = N => memory_status.success_rate = <<"1", "0", "0", ".", "0", "%">>
             /\ 2 * S = N => memory_status.success_rate = <<"5", "0", ".", "0", "%">>
             /\ S = 0 => memory_status.success_rate = <<"0", ".", "0", "%">>

\* two successes of three: 66.666... is written 66.7%
C3_Witness ==
    /\ memory_status.total_problems = 3
    /\ memory_status.success_count = 2
    /\ memory_status.success_rate = <<"6", "6", ".", "7", "%">>

\* C4: recent_history is the last min(n, 10) stored records in their original
\* order, and the counters count all n records.
C4_RecentWindow ==
    LET n == Len(session_history)
        m == IF n < 10 THEN n ELSE 10
        recent == memory_status.recent_history
    IN  /\ Len(recent) = m
        /\ \A i \in 1..m :
              /\ recent[i] = session_history[n - m + i]
              /\ recent[i].timestamp = now - m + i - 1
        /\ memory_status.total_problems = n
        /\ memory_status.success_count = Cardinality(SuccessIndices(session_history))
        /\ memory_status.success_count + memory_status.error_count = n

\* fifteen records stored: a window of ten, counters of fifteen
C4_Witness ==
    /\ Len(session_history) = 15
    /\ Len(memory_status.recent_history) = 10
    /\ memory_status.total_problems = 15
    /\ memory_status.recent_history[1].timestamp = now - 10

\* the change of one operation counter over a step
StatsDelta(k) == memory_status'.operation_stats[k] - memory_status.operation_stats[k]

Bit(b) == IF b THEN 1 ELSE 0

\* C5 as stated: multiplication counts only a lowercase x.
C5_LowercaseOnly ==
    [][StoreStep =>
        /\ StatsDelta("addition") = Bit(Contains(StoredProblem, "+"))
        /\ StatsDelta("subtraction") = Bit(Contains(StoredProblem, "-"))
        /\ StatsDelta("multiplication")
             = Bit(Contains(StoredProblem, "*") \/ Contains(StoredProblem, "U+00D7")
                   \/ Contains(StoredProblem, "x"))
        /\ StatsDelta("division")
             = Bit(Contains(StoredProblem, "/") \/ Contains(StoredProblem, "U+00F7"))
      ]_vars

\* C5, amended: one store_result changes each operation counter by 1 or 0,
\* independently: addition for "+", subtraction for "-", multiplication for
\* "*", the multiplication sign or the letter x in either case, division for
\* "/" or the division sign; a repeated symbol still adds 1.
C5_OperationStats ==
    [][StoreStep =>
        /\ StatsDelta("addition") = Bit(Contains(StoredProblem, "+"))
        /\ StatsDelta("subtraction") = Bit(Contains(StoredProblem, "-"))
        /\ StatsDelta("multiplication")
             = Bit(Contains(StoredProblem, "*") \/ Contains(StoredProblem, "U+00D7")
                   \/ Contains(StoredProblem, "x") \/ Contains(StoredProblem, "X"))
        /\ StatsDelta("division")
             = Bit(Contains(StoredProblem, "/") \/ Contains(StoredProblem, "U+00F7"))
      ]_vars

\* "3 + 4x5" then "3 X 4" stored
C5_Witness ==
    /\ Len(session_history) = 2
    /\ session_history[1].problem = <<"3", " ", "+", " ", "4", "x", "5">>
    /\ session_history[2].problem = <<"3", " ", "X", " ", "4">>
    /\ memory_status.operation_stats["addition"] = 1
    /\ memory_status.operation_stats["multiplication"] = 2

\* C6: after reset_memory the status is the zero-valued default and the
\* summary is the fresh-start string.
C6_Reset ==
    response.tool = "reset_memory" =>
        /\ get_memory_status =
              [ total_problems  |-> 0,
                success_count   |-> 0,
                error_count     |-> 0,
                success_rate    |-> <<"0", "%">>,
                operation_stats |-> [ addition |-> 0, subtraction |-> 0,
                                      multiplication |-> 0, division |-> 0 ],
                recent_history  |-> << >> ]
        /\ get_memory_summary.summary
              = <<"No previous experience. This is a fresh start.">>

\* a reset of a store that held records
C6_Witness == response.tool = "reset_memory" /\ now >= 2

\* C7: the trend is "insufficient data" below 2 records; otherwise by the
\* number s of successes among the last 5 records: s >= 4 strongly improving,
\* s = 3 improving, s = 2 mixed, s <= 1 declining.
C7_Trend ==
    LET n == Len(session_history)
        first == IF n > 5 THEN n - 4 ELSE 1
        s == Cardinality({i \in first..n : session_history[i].success})
        trend == analyze_recent_trend(session_history)
    IN  /\ n < 2 => trend = <<"insufficient data">>
        /\ n >= 2 /\ s >= 4 => trend = <<"strongly improving">>
        /\ n >= 2 /\ s = 3 => trend = <<"improving">>
        /\ n >= 2 /\ s = 2 => trend = <<"mixed">>
        /\ n >= 2 /\ s <= 1 => trend = <<"declining">>

\* seven records, five successes then two failures: three successes in the
\* last five
C7_Witness ==
    /\ Len(session_history) = 7
    /\ \A i \in 1..5 : session_history[i].success
    /\ \A i \in 6..7 : ~session_history[i].success
    /\ analyze_recent_trend(session_history) = <<"improving">>

(***************************************************************************)
(* Properties of the pipeline.                                             *)
(***************************************************************************)
\* the runs of analyze that have returned, and their bundles
ReturnedAnalyses == {id \in Runs : run[id].entry = "analyze" /\ run[id].pc = "returned"}

Bundle(id) == run[id].returned[1]

SaysError(text) == Len(text) >= 5 /\ SubSeq(text, 1, 5) = <<"E", "r", "r", "o", "r">>

\* C8: in every bundle analyze returns, success is the negation of
\* "action.result starts with Error"; the bundle of the system-error path
\* included.
C8_SuccessFlag ==
    /\ \A id \in ReturnedAnalyses :
          Bundle(id).success = ~SaysError(Bundle(id).action.result)
    /\ \A expression \in {e \in Expressions : ~print_raises(e)} :
          LET handled == analyze_except(expression, OracleErrorText)
          IN  /\ handled.ok
              /\ handled.value.success = ~SaysError(handled.value.action.result)

\* all four stages ran and the oracle's own answer reports an error
C8_Witness ==
    \E id \in ReturnedAnalyses :
        /\ Bundle(id).perception.is_valid
        /\ Bundle(id).action.result = ErrorResultText
        /\ Bundle(id).action.confidence = 100
        /\ ~Bundle(id).success

\* C9: for every expression string and whatever the oracle does at each
\* call, analyze returns a complete bundle with the four stage outputs in it
\* and quick_solve returns an ActionOutput; neither lets an exception out.
\* Refuted by an expression that cannot be printed: both entry points print
\* it before their try block begins.
C9_AlwaysReturns ==
    \A id \in Runs :
        /\ run[id].pc # "raised"
        /\ (run[id].pc = "returned" /\ run[id].entry = "analyze") =>
              /\ DOMAIN Bundle(id) = { "expression", "perception", "memory",
                                       "decision", "action", "success" }
              /\ Bundle(id).expression = run[id].expression
              /\ IsPerceptionOutput(Bundle(id).perception)
              /\ IsMemoryOutput(Bundle(id).memory)
              /\ IsDecisionOutput(Bundle(id).decision)
              /\ IsActionOutput(Bundle(id).action)
              /\ Bundle(id).success \in BOOLEAN
        /\ (run[id].pc = "returned" /\ run[id].entry = "quick_solve") =>
              IsActionOutput(Bundle(id))

IsPrefix(s, t) == Len(s) <= Len(t) /\ s = SubSeq(t, 1, Len(s))

Occurrences(s, x) == Cardinality({i \in 1..Len(s) : s[i] = x})

FullOrder == <<"perception", "memory", "decision", "action">>

C13_QuickPath ==
    \A id \in Runs :
        LET r == run[id]
        IN  r.entry = "quick_solve" =>
              /\ IsPrefix(r.order, <<"perception", "action">>)
              /\ r.oracle_calls["memory"] = 0
              /\ r.oracle_calls["decision"] = 0
              /\ r.oracle_calls["perception"] + r.oracle_calls["action"] <= 2
              /\ r.memory_result = None
              /\ r.oracle_calls["action"] > 0 =>
                    /\ r.decision_result # None
                    /\ r.decision_result[1].selected_method = "direct_calculation"
                    /\ r.decision_result[1].final_confidence = 70
                    /\ ~r.decision_result[1].show_working_steps
                    /\ r.decision_result[1].verification_level = "minimal"

\* quick_solve has returned what the Action stage made of the oracle's answer
C13_Witness ==
    \E id \in Runs :
        /\ run[id].entry = "quick_solve"
        /\ run[id].pc = "returned"
        /\ run[id].order = <<"perception", "action">>
        /\ run[id].returned[1].result = <<"8">>

(***************************************************************************)
(* Stage fallbacks.  An oracle call fails a stage when it raises, when its *)
(* text is not JSON, fenced or bare, or when the JSON document in it is    *)
(* not a record of the stage's output type.                                *)
(***************************************************************************)
DocsIn(text) == {text[i] : i \in 1..Len(text)} \cap JsonDocs

Prose == {"I cannot help with that.", "Here is the JSON you asked for: "}

NotJson(text) == DocsIn(text) = {} \/ \E i \in 1..Len(text) : text[i] \in Prose

OracleFails(outcome, good) ==
    \/ outcome.raises
    \/ NotJson(outcome.text)
    \/ ~(DocsIn(outcome.text) \subseteq good)

\* the last oracle call of run r to end was the one of stage, and it failed
StageFailed(r, stage, good) ==
    /\ r.last_answer # None
    /\ r.last_answer[1].stage = stage
    /\ OracleFails(r.last_answer[1].outcome, good)

\* C14: when Perception's oracle call raises, returns text that is not JSON or
\* returns values outside PerceptionOutput's domain, the stage returns
\* is_valid = FALSE, no operands, no operators, complexity simple,
\* requires_order_ops FALSE, difficulty 1 and an error_message that describes
\* the failure; it does not raise.
C14_PerceptionFallback ==
    \A id \in Runs :
        LET r == run[id]
        IN  StageFailed(r, "perception",
                        { "json:perception_valid", "json:perception_invalid",
                          "json:perception_invalid_no_message" }) =>
              /\ r.pc # "raised"
              /\ r.perception_result # None
              /\ ~r.perception_result[1].is_valid
              /\ r.perception_result[1].operands = << >>
              /\ r.perception_result[1].operators = << >>
              /\ r.perception_result[1].complexity = "simple"
              /\ ~r.perception_result[1].requires_order_ops
              /\ r.perception_result[1].estimated_difficulty = 1
              /\ r.perception_result[1].error_message # None
              /\ StartsWith(r.perception_result[1].error_message[1],
                            <<"Perception analysis failed: ">>)
              /\ Len(r.perception_result[1].error_message[1]) > 1

\* the oracle answered with a difficulty of 11
C14_Witness ==
    \E id \in Runs :
        /\ run[id].last_answer # None
        /\ run[id].last_answer[1].stage = "perception"
        /\ ~run[id].last_answer[1].outcome.raises
        /\ "json:perception_bad_difficulty" \in DocsIn(run[id].last_answer[1].outcome.text)
        /\ ~run[id].perception_result[1].is_valid

\* C15: when Memory's oracle call raises, returns text that is not JSON or
\* returns values outside MemoryOutput's domain, the stage returns
\* conservative_approach, confidence_modifier 0.6 and similar_problems_found
\* 0, and the run goes on to the Decision stage with that value.
C15_MemoryFallback ==
    \A id \in Runs :
        LET r == run[id]
        IN  StageFailed(r, "memory", {"json:memory_standard", "json:memory_confident"}) =>
              /\ r.memory_result # None
              /\ r.memory_result[1].strategy_recommendation = "conservative_approach"
              /\ r.memory_result[1].confidence_modifier = 60
              /\ r.memory_result[1].similar_problems_found = 0
              /\ r.pc = "DECIDE"
              /\ r.order = <<"perception", "memory", "decision">>

\* the oracle answered with a confidence_modifier of 0.4
C15_Witness ==
    \E id \in Runs :
        /\ run[id].last_answer # None
        /\ run[id].last_answer[1].stage = "memory"
        /\ ~run[id].last_answer[1].outcome.raises
        /\ DocsIn(run[id].last_answer[1].outcome.text) = {"json:memory_low_modifier"}
        /\ ~NotJson(run[id].last_answer[1].outcome.text)
        /\ run[id].memory_result[1].confidence_modifier = 60
        /\ run[id].pc = "DECIDE"

\* C16: when Decision's oracle call raises, returns text that is not JSON or
\* returns values outside DecisionOutput's domain, the stage returns
\* conservative_detailed, final_confidence 0.5, working steps shown,
\* verification high and risk high, and the run goes on to the Action stage
\* with that value.
C16_DecisionFallback ==
    \A id \in Runs :
        LET r == run[id]
        IN  StageFailed(r, "decision",
                        {"json:decision_direct", "json:decision_direct_low_confidence"}) =>
              /\ r.decision_result # None
              /\ r.decision_result[1].selected_method = "conservative_detailed"
              /\ r.decision_result[1].final_confidence = 50
              /\ r.decision_result[1].show_working_steps
              /\ r.decision_result[1].verification_level = "high"
              /\ r.decision_result[1].risk_assessment = "high"
              /\ r.pc = "ACT"
              /\ r.order = FullOrder

\* the Decision oracle raised
C16_Witness ==
    \E id \in Runs :
        /\ run[id].last_answer # None
        /\ run[id].last_answer[1].stage = "decision"
        /\ run[id].last_answer[1].outcome.raises
        /\ run[id].decision_result[1].selected_method = "conservative_detailed"
        /\ run[id].pc = "ACT"

\* C17: when Action's oracle call raises, returns text that is not JSON or
\* returns a record that fails ActionOutput's validation even after the
\* coercion, the stage returns result "Error: <message>", three steps of
\* which the last two are fixed, and confidence 0.0; the bundle built from
\* it has success FALSE.
C17_ActionFallback ==
    \A id \in Runs :
        LET r == run[id]
        IN  StageFailed(r, "action",
                        ActionDocs \ {"json:action_missing_verification", "json:array"}) =>
              /\ r.pc = "returned"
              /\ r.action_result # None
              /\ LET a == r.action_result[1]
                     message == SubSeq(a.result, Len(ErrorPrefix) + 1, Len(a.result))
                 IN  /\ StartsWith(a.result, ErrorPrefix)
                     /\ message # << >>
                     /\ a.steps = << <<"Action execution failed: ">> \o message,
                                     <<"Unable to complete mathematical calculation">>,
                                     <<"System error prevented normal execution">> >>
                     /\ a.confidence = 0
                     /\ r.entry = "analyze" =>
                           Bundle(id).action = a /\ ~Bundle(id).success
                     /\ r.entry = "quick_solve" => Bundle(id) = a

\* the oracle's record has no verification field
C17_Witness ==
    \E id \in ReturnedAnalyses :
        /\ run[id].last_answer[1].stage = "action"
        /\ ~run[id].last_answer[1].outcome.raises
        /\ DocsIn(run[id].last_answer[1].outcome.text) = {"json:action_missing_verification"}
        /\ ~NotJson(run[id].last_answer[1].outcome.text)
        /\ Bundle(id).action.confidence = 0
        /\ ~Bundle(id).success

(***************************************************************************)
(* Properties of the store's read operations and of concurrent writers.    *)
(***************************************************************************)
\* C18: get_memory_status returns the status by value: what a caller got
\* stays as it was returned, whatever store_result calls follow.  Refuted:
\* the caller holds the object the store goes on updating.
C18_ReturnedByValue == caller.ref # "none" => HeldStatus = caller.returned

\* text contains part
HasPart(text, part) ==
    \E i \in 0..(Len(text) - Len(part)) : SubSeq(text, i + 1, i + Len(part)) = part

\* the number of records of history whose problem text has one of symbols,
\* or the letter x in either case when letter is TRUE
CountWith(history, symbols, letter) ==
    Cardinality({ i \in 1..Len(history) :
                    \/ \E c \in symbols : Contains(history[i].problem, c)
                    \/ letter /\ (Contains(history[i].problem, "x")
                                  \/ Contains(history[i].problem, "X")) })

\* the summary text, up to the strategy line, written from the records alone
SummaryOfRecords(history) ==
    LET n == Len(history)
        successes == Cardinality(SuccessIndices(history))
        last == history[n]
    IN  <<"AGENT MEMORY SUMMARY:", "\n- Total Problems Solved: ">> \o DecStr(n)
        \o <<"\n- Success Rate: ">> \o Format1f(successes, n)
        \o <<"%", " (">> \o DecStr(successes) \o <<"/">> \o DecStr(n) \o <<")">>
        \o <<"\n- Operation Experience: ">>
        \o <<"{'addition': ">> \o DecStr(CountWith(history, {"+"}, FALSE))
        \o <<", 'subtraction': ">> \o DecStr(CountWith(history, {"-"}, FALSE))
        \o <<", 'multiplication': ">>
        \o DecStr(CountWith(history, {"*", "U+00D7"}, TRUE))
        \o <<", 'division': ">> \o DecStr(CountWith(history, {"/", "U+00F7"}, FALSE))
        \o <<"}">>
        \o <<"\n- Recent Performance Trend: ">> \o analyze_recent_trend(history)
        \o (IF successes < n
            THEN <<"\n- Recent Errors: ">> \o DecStr(n - successes)
                 \o <<" failures recorded">>
            ELSE << >>)
        \o <<"\n- Last Problem: '">> \o last.problem \o <<"' -> ">> \o last.result
        \o (IF last.success THEN <<" (SUCCESS)">> ELSE <<" (FAILED)">>)

StrategyLine == <<"\n- Last Strategy Used: ">>

\* the text of the summary the get_memory_summary tool has just returned
SummaryReturned == response.tool = "get_memory_summary" /\ session_history # << >>

\* C19 as stated: whenever total_problems > 0 the summary text recaps the
\* most recent record with the strategy it used.  Refuted by a record stored
\* without a strategy: the text has no strategy line then.
C19_AlwaysStrategy ==
    SummaryReturned => HasPart(response.body.summary, StrategyLine)

\* C19, amended: whenever total_problems > 0 the summary text is made of the
\* problem count, the success percentage, the operation_stats mapping, the
\* trend, an error-count note exactly when error_count > 0, and the recap of
\* the most recent record, all determined by the stored records alone; the
\* strategy follows the recap exactly when that record has a non-empty
\* strategy_used.
C19_Summary ==
    SummaryReturned =>
        LET text == response.body.summary
            last == session_history[Len(session_history)]
            named == last.strategy_used # None /\ last.strategy_used[1] # << >>
        IN  /\ memory_status.total_problems > 0
            /\ text = SummaryOfRecords(session_history)
                      \o (IF named THEN StrategyLine \o last.strategy_used[1]
                          ELSE << >>)
            /\ HasPart(text, <<"\n- Recent Errors: ">>) <=> memory_status.error_count > 0
            /\ HasPart(text, StrategyLine) <=> named

\* a summary read after a failure and then a success stored without a strategy
C19_Witness ==
    /\ SummaryReturned
    /\ Len(session_history) = 2
    /\ ~session_history[1].success
    /\ session_history[2].success
    /\ session_history[2].strategy_used = None
    /\ HasPart(response.body.summary, <<"\n- Recent Errors: ">>)

\* the replies the runs have received
Replies == UNION { { <<id, i>> : i \in DOMAIN tool_calls[id].replies } : id \in Runs }

ReplyOf(p) == tool_calls[p[1]].replies[p[2]]

\* C20: whatever the order in which the store_result calls of concurrent
\* runs are served, every served call has added its own record and read the
\* count that includes it and nothing of a call served later, no record is
\* missing, and success_count + error_count = total_problems = the number
\* of records.
C20_CriticalSection ==
    /\ memory_status.success_count + memory_status.error_count
         = memory_status.total_problems
    /\ memory_status.total_problems = Len(session_history)
    /\ Cardinality(Replies) = Len(session_history)
    /\ \A p \in Replies :
          /\ ReplyOf(p).total_problems \in 1..Len(session_history)
          /\ session_history[ReplyOf(p).total_problems].problem = ReplyOf(p).problem
          /\ session_history[ReplyOf(p).total_problems].result = ReplyOf(p).result
          /\ session_history[ReplyOf(p).total_problems].success = ReplyOf(p).success
    /\ \A p, q \in Replies :
          p # q => ReplyOf(p).total_problems # ReplyOf(q).total_problems

\* both runs have a call in flight, and a call of the second run was served
\* before a call of the first
C20_Witness ==
    /\ tool_calls["r1"].pending # None
    /\ tool_calls["r2"].pending # None
    /\ Len(tool_calls["r1"].replies) = 1
    /\ Len(tool_calls["r2"].replies) = 1
    /\ tool_calls["r2"].replies[1].total_problems = 1
    /\ tool_calls["r1"].replies[1].total_problems = 2

\* the store's success rate as the status reports it, in tenths of a percent
ReportedRate ==
    IF memory_status.total_problems = 0 THEN 0
    ELSE RoundHalfEven(1000 * memory_status.success_count,
                       memory_status.total_problems)

\* C22: analyze_performance_trends advises by the store's success rate, as
\* the status reports it: with no problem recorded, that there is no
\* experience yet; at 80% or more, confident_direct; below 60%, a conservative
\* approach; from 60% to below 80%, standard_verification.  The
\* recommendations are those of exactly one of the four cases.
C22_Recommendations ==
    response.tool = "analyze_performance_trends" =>
        LET advice == response.body.recommendations
            total  == memory_status.total_problems
            none   == << <<"No experience yet - start with simple problems">> >>
            high   == << <<"High success rate - can attempt more complex problems">>,
                         <<"Consider using confident_direct strategy">> >>
            middle == << <<"Good success rate - maintain balanced approach">>,
                         <<"Continue with standard_verification strategy">> >>
            low    == << <<"Lower success rate - focus on conservative approach">>,
                         <<"Use step_by_step_verification for learning">> >>
        IN  /\ (total = 0) <=> (advice = none)
            /\ (total > 0 /\ ReportedRate >= 800) <=> (advice = high)
            /\ (total > 0 /\ ReportedRate >= 600 /\ ReportedRate < 800)
                   <=> (advice = middle)
            /\ (total > 0 /\ ReportedRate < 600) <=> (advice = low)
            /\ Cardinality({c \in {none, high, middle, low} : advice = c}) = 1

\* the analysis of a store whose success rate is exactly 80%
C22_Witness ==
    /\ response.tool = "analyze_performance_trends"
    /\ memory_status.total_problems = 5
    /\ memory_status.success_count = 4

\* C24: store_result adds exactly one record at the end of the history,
\* leaving the earlier records as they were, and only reset_memory removes
\* records.
C24_AppendOnly ==
    [][ /\ StoreStep =>
              /\ Len(session_history') = Len(session_history) + 1
              /\ IsPrefix(session_history, session_history')
              /\ session_history'[Len(session_history')].timestamp = now
        /\ ~IsPrefix(session_history, session_history') =>
              /\ response'.tool = "reset_memory"
              /\ session_history' = << >> ]_vars

\* a third record stored after two
C24_Witness == response.tool = "store_result" /\ Len(session_history) = 3

\* C30: for every limit >= 0, get_recent_history returns the `limit` most
\* recent records in order (all of them when the store holds fewer), with
\* count the number returned, so count <= limit; without a limit, 5 is used;
\* on an empty store it returns no record, count 0, success_rate "0%" and no
\* most_recent_result.
C30_RecentHistory ==
    response.tool = "get_recent_history" =>
        LET limit == IF response.arguments.limit = None THEN 5
                     ELSE response.arguments.limit[1]
            n     == Len(session_history)
            k     == Min(limit, n)
            body  == response.body
        IN  /\ body.recent_problems = SubSeq(session_history, n - k + 1, n)
            /\ body.count = k
            /\ body.count <= limit
            /\ n = 0 =>
                  /\ body.recent_problems = << >>
                  /\ body.count = 0
                  /\ body.analysis.success_rate = <<"0", "%">>
                  /\ body.analysis.most_recent_result = None

\* the same with limit 0 set aside
C30_PositiveLimit ==
    (response.tool = "get_recent_history" /\ response.arguments.limit # Some(0))
        => C30_RecentHistory

\* the text with its fences taken off: trimmed, a leading fence removed and,
\* with it, the trailing fence where the text ends in one
Unfenced(text) ==
    LET stripped == Strip(text)
        body == IF StartsWith(stripped, FenceJson)
                THEN SubSeq(stripped, 8, Len(stripped))
                ELSE IF StartsWith(stripped, Fence)
                THEN SubSeq(stripped, 4, Len(stripped))
                ELSE stripped
        closed == /\ StartsWith(stripped, Fence)
                  /\ Len(body) >= 3
                  /\ SubSeq(body, Len(body) - 2, Len(body)) = Fence
    IN  Strip(IF closed THEN SubSeq(body, 1, Len(body) - 3) ELSE body)

\* the last oracle call of run r to end was the one of stage and returned a
\* text that, its fences taken off, is the document doc
StageRead(r, stage, doc) ==
    /\ r.last_answer # None
    /\ r.last_answer[1].stage = stage
    /\ ~r.last_answer[1].outcome.raises
    /\ Unfenced(r.last_answer[1].outcome.text) = <<doc>>

\* C27: a stage parses the oracle's text with the leading fence and its
\* matching trailing fence removed and no other character dropped: a text
\* that is a valid document once its fences are taken off gives the stage
\* the values of that document.
C27_FencesOnly ==
    \A id \in Runs :
        LET r == run[id]
        IN  /\ StageRead(r, "perception", "json:perception_valid") =>
                  /\ r.perception_result[1].is_valid
                  /\ r.perception_result[1].perception_notes = <<"basic addition">>
            /\ StageRead(r, "action", "json:action_8") =>
                  /\ r.action_result[1].result = <<"8">>
                  /\ r.action_result[1].confidence = 95

\* the text has no leading fence, or has one and ends in a fence
WellFenced(text) ==
    LET t == Strip(text)
    IN  \/ ~StartsWith(t, Fence)
        \/ Len(t) >= 6 /\ SubSeq(t, Len(t) - 2, Len(t)) = Fence

\* the last oracle call of run r to end was the one of stage and returned
\* the document doc, bare or between fences
StageParsed(r, stage, doc) ==
    /\ StageRead(r, stage, doc)
    /\ WellFenced(r.last_answer[1].outcome.text)

\* the same for the texts that end in a fence or have none
C27_ClosedFences ==
    \A id \in Runs :
        LET r == run[id]
        IN  /\ StageParsed(r, "perception", "json:perception_valid") =>
                  /\ r.perception_result[1].is_valid
                  /\ r.perception_result[1].perception_notes = <<"basic addition">>
            /\ StageParsed(r, "action", "json:action_8") =>
                  /\ r.action_result[1].result = <<"8">>
                  /\ r.action_result[1].confidence = 95

\* the Action documents that have every field of ActionOutput
CompleteActionDocs == ActionDocs \ {"json:action_missing_verification", "json:array"}

\* the ActionOutput is the fallback of the stage
IsActionFallback(a) ==
    a.verification = <<"Unable to verify due to execution error">>

C26_Steps ==
    \A id \in Runs :
        LET r == run[id]
        IN  /\ r.action_result # None =>
                  \A i \in 1..Len(r.action_result[1].steps) :
                      /\ DOMAIN r.action_result[1].steps[i]
                            = 1..Len(r.action_result[1].steps[i])
                      /\ \A j \in DOMAIN r.action_result[1].steps[i] :
                            r.action_result[1].steps[i][j] \in STRING
            /\ \A doc \in CompleteActionDocs :
                  StageParsed(r, "action", doc) =>
                      LET steps == JsonValue(doc).value.steps
                      IN  r.action_result[1].steps =
                             IF steps.t = "list"
                             THEN [i \in 1..Len(steps.v) |-> PyStr(steps.v[i])]
                             ELSE <<PyStr(steps)>>
            /\ StageParsed(r, "action", "json:action_number") =>
                  r.action_result[1].steps = << <<"add">>, <<"8">> >>
            /\ StageParsed(r, "action", "json:action_steps_text") =>
                  r.action_result[1].steps = << <<"5 + 3 = 8">> >>

\* the oracle gave a list of a string and a number
C26_Witness ==
    \E id \in Runs :
        /\ StageParsed(run[id], "action", "json:action_number")
        /\ Len(run[id].action_result[1].steps) = 2

\* the declared domains of the stage outputs
InPerceptionDomain(p) ==
    /\ p.complexity \in {"simple", "medium", "complex"}
    /\ p.estimated_difficulty >= 1 /\ p.estimated_difficulty <= 10

InMemoryDomain(m) ==
    /\ m.strategy_recommendation \in
          {"conservative_approach", "standard_verification", "confident_direct"}
    /\ m.confidence_modifier >= 50 /\ m.confidence_modifier <= 100
    /\ m.similar_problems_found >= 0

InDecisionDomain(d) ==
    /\ d.selected_method \in
          { "direct_calculation", "standard_with_check",
            "step_by_step_verification", "conservative_detailed" }
    /\ d.verification_level \in {"minimal", "standard", "high", "extra"}
    /\ d.risk_assessment \in {"low", "medium", "high"}
    /\ d.final_confidence >= 0 /\ d.final_confidence <= 100

InActionDomain(a) == a.confidence >= 0 /\ a.confidence <= 100

\* the last oracle call of run r to end was the one of stage and returned
\* one of the documents docs, bare or between fences
StageParsedOneOf(r, stage, docs) == \E doc \in docs : StageParsed(r, stage, doc)

C29_DecisionUnchanged ==
    \A id \in Runs :
        LET r == run[id]
        IN  \A doc \in {"json:decision_direct", "json:decision_direct_low_confidence"} :
                StageParsed(r, "decision", doc) =>
                    /\ r.decision_result[1].selected_method
                          = JsonValue(doc).value.selected_method
                    /\ r.decision_result[1].final_confidence
                          = JsonValue(doc).value.final_confidence
                    /\ r.decision_result[1].verification_level
                          = JsonValue(doc).value.verification_level
                    /\ r.decision_result[1].reasoning = JsonValue(doc).value.reasoning

\* the oracle chose direct_calculation with a confidence of 0.1
C29_Witness ==
    \E id \in Runs :
        /\ StageParsed(run[id], "decision", "json:decision_direct_low_confidence")
        /\ run[id].decision_result[1].selected_method = "direct_calculation"
        /\ run[id].decision_result[1].final_confidence = 10

\* the bundle is the synthetic one of a system error
IsSystemErrorBundle(b) ==
    /\ ~b.perception.is_valid
    /\ b.perception.operands = << >>
    /\ b.perception.operators = << >>
    /\ b.perception.error_message # None
    /\ b.memory.strategy_recommendation = "conservative_approach"
    /\ b.memory.confidence_modifier = 50
    /\ b.memory.similar_problems_found = 0
    /\ b.decision.selected_method = "conservative_detailed"
    /\ b.decision.final_confidence = 0
    /\ b.decision.verification_level = "extra"
    /\ b.action.confidence = 0
    /\ StartsWith(b.action.result, ErrorPrefix \o <<"system_error: ">>)
    /\ ~b.success

\* C23: when an exception escapes the stages' own handling inside analyze,
\* the run returns a synthetic bundle (perception invalid, error values for
\* the other stages, action.result starting with "Error: system_error",
\* success FALSE); a bundle returned without all four stages executed is
\* this one or the one of the short-circuit on an invalid perception.
C23_SystemError ==
    \A id \in Runs :
        LET r == run[id]
        IN  /\ ( /\ r.entry = "analyze"
                 /\ r.perception_result # None
                 /\ r.perception_result[1].is_valid
                 /\ r.memory_summary = NotAString ) =>
                   /\ r.pc = "returned"
                   /\ r.order = <<"perception">>
                   /\ IsSystemErrorBundle(r.returned[1])
            /\ ( /\ r.entry = "analyze"
                 /\ r.pc = "returned"
                 /\ r.order # FullOrder ) =>
                   \/ IsSystemErrorBundle(r.returned[1])
                   \/ /\ ~r.perception_result[1].is_valid
                      /\ r.returned[1].perception = r.perception_result[1]
                      /\ r.order = <<"perception">>

\* MemoryInput raised after a valid Perception and the run returned the
\* synthetic bundle
C23_Witness ==
    \E id \in Runs :
        /\ run[id].pc = "returned"
        /\ run[id].perception_result # None
        /\ run[id].perception_result[1].is_valid
        /\ run[id].order = <<"perception">>
        /\ IsSystemErrorBundle(run[id].returned[1])

\* the records of the history that a store_result call of run id has added
RecordsOf(id) ==
    { i \in 1..Len(session_history) :
        \E k \in 1..Len(tool_calls[id].replies) :
            tool_calls[id].replies[k].total_problems = i }

\* C21: in the full-analysis flow the memory summary is read from the store
\* before the pipeline starts, store_result is called only after analyze has
\* returned a complete bundle, and a run cancelled while it waits for an
\* oracle call makes no change to the store.
C21_StoreAfterAnalysis ==
    /\ [][ \A id \in Runs :
              /\ (run[id].pc = "idle" /\ run'[id].pc # "idle") =>
                    /\ tool_calls[id].memory_summary # None
                    /\ run'[id].memory_summary = tool_calls[id].memory_summary[1]
              /\ (tool_calls[id].memory_summary = None
                    /\ tool_calls'[id].memory_summary # None) =>
                    /\ run[id].pc = "idle"
                    /\ tool_calls'[id].memory_summary
                          = Some(MemorySummary(session_history, memory_status).summary)
              /\ (tool_calls[id].pending = None /\ tool_calls'[id].pending # None) =>
                    /\ run[id].pc = "returned"
                    /\ run[id].returned # None
                    /\ DOMAIN run[id].returned[1] =
                          { "expression", "perception", "memory", "decision",
                            "action", "success" }
                    /\ tool_calls'[id].pending[1].problem = run[id].returned[1].expression
                    /\ tool_calls'[id].pending[1].result = run[id].returned[1].action.result
                    /\ tool_calls'[id].pending[1].success = run[id].returned[1].success
              /\ (run[id].pc # "cancelled" /\ run'[id].pc = "cancelled") =>
                    UNCHANGED <<session_history, memory_status>>
         ]_vars
    /\ [](\A id \in Runs :
              /\ run[id].pc \in {"cancelled", "raised"} =>
                    /\ tool_calls[id].pending = None
                    /\ tool_calls[id].replies = << >>
              /\ run[id].pc # "returned" => RecordsOf(id) = {})
    /\ [](Len(session_history) = Cardinality(UNION {RecordsOf(id) : id \in Runs}))

\* one run was cancelled while it waited for the Decision oracle and the
\* other stored its bundle
C21_Witness ==
    /\ run["r1"].pc = "cancelled"
    /\ run["r1"].order = <<"perception", "memory", "decision">>
    /\ tool_calls["r2"].flow = "done"
    /\ Len(session_history) = 1
    /\ session_history[1].problem = run["r2"].expression

\* C31: when every oracle call ends, every run of analyze ends by returning
\* a bundle, with at most one oracle call for each of the four stages, and
\* every run of quick_solve ends by returning an ActionOutput.
C31_Terminates ==
    /\ [](\A id \in Runs : \A st \in Stages : run[id].oracle_calls[st] <= 1)
    /\ \A id \in SingleRun :
          (run[id].entry = "analyze") ~>
              (run[id].pc = "returned" /\ "perception" \in DOMAIN run[id].returned[1])
    /\ \A id \in SingleRun :
          (run[id].entry = "quick_solve") ~>
              (run[id].pc = "returned" /\ "steps" \in DOMAIN run[id].returned[1])

\* the same for the expressions the console can print
C31_PrintableTerminates ==
    /\ [](\A id \in Runs : \A st \in Stages : run[id].oracle_calls[st] <= 1)
    /\ \A id \in SingleRun :
          (run[id].entry = "analyze" /\ ~print_raises(run[id].expression)) ~>
              (run[id].pc = "returned" /\ "perception" \in DOMAIN run[id].returned[1])
    /\ \A id \in SingleRun :
          (run[id].entry = "quick_solve" /\ ~print_raises(run[id].expression)) ~>
              (run[id].pc = "returned" /\ "steps" \in DOMAIN run[id].returned[1])

\* the positions at which a run is suspended: its oracle calls
Suspended == {"PERCEIVE", "CONSULT", "DECIDE", "ACT"}

OracleCalls(r) ==
    r.oracle_calls["perception"] + r.oracle_calls["memory"]
      + r.oracle_calls["decision"] + r.oracle_calls["action"]

\* the next step of run id can be taken in the current state
CanAdvance(id) ==
    CASE run[id].pc = "idle" ->
           ENABLED (\E expression \in Expressions, memory_summary \in Summaries :
                       analyze_start(id, expression, memory_summary))
      [] run[id].pc = "PERCEIVE" /\ run[id].entry = "analyze" ->
           ENABLED (\E oracle \in SomeOutcomes({"json:perception_valid"}) :
                       analyze_perceived(id, oracle))
      [] run[id].pc = "PERCEIVE" /\ run[id].entry = "quick_solve" ->
           ENABLED (\E oracle \in SomeOutcomes({"json:perception_valid"}) :
                       quick_solve_perceived(id, oracle))
      [] run[id].pc = "CONSULT" ->
           ENABLED (\E oracle \in SomeOutcomes({"json:memory_standard"}) :
                       analyze_consulted(id, oracle))
      [] run[id].pc = "DECIDE" ->
           ENABLED (\E oracle \in SomeOutcomes({"json:decision_direct"}) :
                       analyze_decided(id, oracle))
      [] run[id].pc = "ACT" /\ run[id].entry = "analyze" ->
           ENABLED (\E oracle \in SomeOutcomes({"json:action_8"}) :
                       analyze_acted(id, oracle))
      [] run[id].pc = "ACT" /\ run[id].entry = "quick_solve" ->
           ENABLED (\E oracle \in SomeOutcomes({"json:action_8"}) :
                       quick_solve_acted(id, oracle))
      [] OTHER -> TRUE

\* C32: while a run is suspended on an oracle call, another run can take
\* each of its own steps up to its end; a step of one run leaves the other
\* run as it is, and a run rests only at an oracle call or at its end, each
\* step that does not end the run making exactly one oracle call.
C32_NotSerialized ==
    /\ [](\A id \in Runs : \A other \in Runs \ {id} :
              run[id].pc \in Suspended => CanAdvance(other))
    /\ [][ \A id \in Runs :
              run'[id] # run[id] =>
                  /\ \A other \in Runs \ {id} : run'[other] = run[other]
                  /\ run'[id].pc \in Suspended \cup {"returned", "raised"}
                  /\ run'[id].pc \in Suspended =>
                        OracleCalls(run'[id]) = OracleCalls(run[id]) + 1
                  /\ run'[id].pc \notin Suspended =>
                        OracleCalls(run'[id]) = OracleCalls(run[id]) ]_vars

\* the first run waits for its Perception oracle while the second, started
\* as well, has gone through its four stages and returned
C32_Witness ==
    /\ run["r1"].pc = "PERCEIVE"
    /\ run["r2"].pc = "returned"
    /\ run["r2"].order = FullOrder

(***************************************************************************)
(* C33: the pipeline and the store.                                        *)
(***************************************************************************)
\* the store's state: the session history and the counters
StoreState == <<session_history, memory_status>>

\* a step of the pipeline: a run is started, resumed or finished
PipelineStep == run' # run

\* C33: analyze, quick_solve and the stages leave the Session Memory Store as
\* it is; the store's state changes only in store_result and reset_memory; and
\* the memory text in a run's Memory prompt is the memory_summary its caller
\* passed, whatever has happened to the store since
C33_Frame ==
    /\ [][ /\ PipelineStep => StoreState' = StoreState
           /\ StoreState' # StoreState
                 => response'.tool \in {"store_result", "reset_memory"} ]_vars
    /\ [](\A id \in Runs :
            run[id].memory_prompt # None
              => /\ run[id].memory_prompt[1].memory = run[id].memory_summary
                 /\ run[id].memory_summary = tool_calls[id].memory_summary[1])

\* C33 witness: a run waits for the Memory oracle with a prompt holding the
\* summary it was passed, while the store's summary has become another
C33_Witness ==
    \E id \in Runs :
        /\ run[id].pc = "CONSULT"
        /\ run[id].memory_prompt # None
        /\ run[id].memory_prompt[1].memory = tool_calls[id].memory_summary[1]
        /\ get_memory_summary.summary # run[id].memory_prompt[1].memory
        /\ session_history # << >>

(***************************************************************************)
(* C34: the counters and the history.                                      *)
(***************************************************************************)
\* tail is what remains of whole after some records at its front are dropped
IsSuffixOf(tail, whole) ==
    /\ Len(tail) <= Len(whole)
    /\ tail = SubSeq(whole, Len(whole) - Len(tail) + 1, Len(whole))

\* C34: after any sequence of store_result and reset_memory, total_problems
\* is the number of records in the session history and recent_history is a
\* suffix of the session history
C34_CountAndSuffix ==
    /\ memory_status.total_problems = Len(session_history)
    /\ IsSuffixOf(memory_status.recent_history, session_history)

\* C34 witness: after a reset and further stores the history is longer than
\* the recent window, so recent_history is a proper suffix of it
C34_Witness ==
    /\ now > Len(session_history)
    /\ Len(session_history) > RecentWindow
    /\ memory_status.total_problems = Len(session_history)
    /\ memory_status.recent_history # session_history
    /\ IsSuffixOf(memory_status.recent_history, session_history)

(***************************************************************************)
(* C35: calls that fail.                                                   *)
(***************************************************************************)
\* a required key of store_result is absent or holds a value of another type
FailsValidation(arguments) ==
    \/ arguments.problem.t # "str"
    \/ arguments.result.t # "str"
    \/ arguments.success.t # "bool"

\* the call is one the claim is about
FailingCall(name, arguments) ==
    \/ name = "store_result" /\ FailsValidation(arguments)
    \/ name \notin ToolNames

\* the reply is an error object for this call
IsErrorObject(body, name, arguments) ==
    /\ DOMAIN body = {"error", "tool", "arguments", "error_type"}
    /\ body.tool = name
    /\ body.arguments = arguments
    /\ body.error # << >>
    /\ body.error_type = IF name = "store_result" THEN "ValidationError"
                         ELSE "ValueError"

\* C35: a store_result call whose arguments fail validation and a call of an
\* unknown tool return an error object with the fields error, tool, arguments
\* and error_type, and leave the history and the counters, operation_stats
\* and recent_history among them, as they were
C35_ErrorObject ==
    [][ \A name \in CallNames, arguments \in CallArguments :
           (FailingCall(name, arguments) /\ call_tool(name, arguments))
             => /\ IsErrorObject(response'.body, name, arguments)
                /\ session_history' = session_history
                /\ memory_status' = memory_status ]_vars

\* C35 witness: with records in the store, the last call was a store_result
\* without its success key, answered by an error object
C35_Witness ==
    /\ session_history # << >>
    /\ memory_status.total_problems = Len(session_history)
    /\ response.tool = "store_result"
    /\ "error_type" \in DOMAIN response.body
    /\ response.body.error_type = "ValidationError"
    /\ response.body.arguments.success = JMissing

\* C35 witness of the other case: the last call named an unknown tool
C35_UnknownToolReached ==
    /\ session_history # << >>
    /\ response.tool = "solve"
    /\ "error_type" \in DOMAIN response.body
    /\ response.body.error_type = "ValueError"

(***************************************************************************)
(* C36: the tools that read the store.                                     *)
(***************************************************************************)
ReadTools ==
    { "get_memory_status", "get_memory_summary", "get_recent_history",
      "analyze_performance_trends" }

\* C36: a call of get_memory_status, get_memory_summary, get_recent_history
\* or analyze_performance_trends leaves the session history and the status
\* (the counters, success_rate, operation_stats, recent_history) unchanged,
\* whatever the store holds and whatever the arguments are
C36_ReadOnly ==
    [][ response'.tool \in ReadTools
          => /\ session_history' = session_history
             /\ memory_status' = memory_status ]_vars

\* C36 witness: get_recent_history has returned fewer records than the
\* history holds, and the history and the counters still have them all
C36_Witness ==
    /\ response.tool = "get_recent_history"
    /\ response.body.count > 0
    /\ response.body.count < Len(session_history)
    /\ memory_status.total_problems = Len(session_history)
    /\ memory_status.recent_history = session_history

(***************************************************************************)
(* C37: success, validity and the stages that ran.                         *)
(***************************************************************************)
\* C37: in every bundle analyze returns, success implies that the perception
\* is valid and that the four stages ran; an invalid perception implies that
\* success is false and that action.result starts with "Error"; and success
\* is decided by the Action result alone, whatever Memory and Decision
\* returned
C37_SuccessAndValidity ==
    \A id \in ReturnedAnalyses :
        /\ Bundle(id).success =>
              /\ Bundle(id).perception.is_valid
              /\ run[id].order = FullOrder
              /\ \A st \in Stages : run[id].oracle_calls[st] = 1
        /\ ~Bundle(id).perception.is_valid =>
              /\ ~Bundle(id).success
              /\ StartsWith(Bundle(id).action.result, ErrorWord)
        /\ Bundle(id).success = ~StartsWith(Bundle(id).action.result, ErrorWord)

\* C37 witness: the Memory and the Decision oracle both raised, the stages
\* returned their fallbacks, and the bundle has success true
C37_Witness ==
    \E id \in ReturnedAnalyses :
        LET r == run[id]
        IN  /\ Bundle(id).success
            /\ Bundle(id).perception.is_valid
            /\ Bundle(id).memory =
                  memory_create_error_response(
                      MemoryInput(r.expression, r.perception_result[1],
                                  r.memory_summary), OracleErrorText)
            /\ Bundle(id).decision.selected_method = "conservative_detailed"
            /\ Bundle(id).decision.final_confidence = 50
            /\ Bundle(id).action.result = <<"8">>

\* C37 witness of the other cases: a bundle of the except clause, with an
\* invalid perception and success false
C37_SystemErrorReached ==
    \E id \in ReturnedAnalyses :
        /\ ~Bundle(id).success
        /\ ~Bundle(id).perception.is_valid
        /\ run[id].order = <<"perception">>
        /\ run[id].perception_result[1].is_valid

(***************************************************************************)
(* C38: quick_solve on an invalid expression.                              *)
(***************************************************************************)
\* the quick_solve runs that have returned
ReturnedQuickSolves ==
    {id \in Runs : run[id].entry = "quick_solve" /\ run[id].pc = "returned"}

\* C38: when the perception of a quick_solve run is invalid, the run returns
\* an ActionOutput whose result is "Error: " followed by the perception's
\* error_message, whose steps are ["Invalid expression"] and whose confidence
\* is 0.0, and it has made no call of the Action oracle
C38_QuickInvalid ==
    \A id \in ReturnedQuickSolves :
        LET r == run[id]
            perception_result == r.perception_result[1]
        IN  ~perception_result.is_valid =>
              /\ r.returned[1].result =
                    ErrorPrefix \o OptStr(perception_result.error_message)
              /\ r.returned[1].steps = << <<"Invalid expression">> >>
              /\ r.returned[1].confidence = 0
              /\ IsActionOutput(r.returned[1])
              /\ r.oracle_calls["action"] = 0
              /\ r.oracle_calls["perception"] = 1
              /\ r.action_result = None

\* C38 witness: the Perception oracle found the expression invalid and gave
\* a message, which the returned result carries after "Error: "
C38_Witness ==
    \E id \in ReturnedQuickSolves :
        /\ ~run[id].perception_result[1].is_valid
        /\ run[id].perception_result[1].error_message # None
        /\ ~run[id].last_answer[1].outcome.raises
        /\ run[id].returned[1].result =
              ErrorPrefix \o run[id].perception_result[1].error_message[1]
        /\ run[id].oracle_calls["action"] = 0

(***************************************************************************)
(* C39: one store_result call for every bundle.                            *)
(***************************************************************************)
\* the store_result call of run id is being made: the server stores the
\* pending request with this step
StoresNow(id) ==
    /\ tool_calls[id].pending # None
    /\ tool_calls'[id].pending = None
    /\ Len(tool_calls'[id].replies) = Len(tool_calls[id].replies) + 1

=============================================================================
